---- MODULE Spec2Model ----
(***************************************************************************)
(* The run/session correlator of the gsv terminal client                   *)
(* (cli/src/tui): the transport callback that filters and classifies       *)
(* inbound chat frames, the channel to the driver loop, and the driver's   *)
(* handlers that mutate AppState.                                          *)
(*                                                                         *)
(* Representation.  Rust Strings that the code trims, lower-cases or       *)
(* splits (session keys, status words, run ids) are sequences of           *)
(* one-character strings.  Message texts, which the code only tests for    *)
(* emptiness and concatenates, are TLA+ strings.  Option<T> is a sequence  *)
(* of length 0 (None) or 1 (Some).  A HashMap is a function whose DOMAIN   *)
(* is its key set.  Vec indexes stay 0-based as in the code; line i of a   *)
(* Vec is element i + 1 of the sequence.                                   *)
(*                                                                         *)
(* Time.  An Instant is kept as its age in seconds; Tick lets time pass.   *)
(*                                                                         *)
(* Drawing.  Every iteration of the driver loop ends with draw (app.rs     *)
(* 192), which writes only scroll fields.  draw reads the rows the active  *)
(* buffer's widget built and the height of the content area; the two are   *)
(* an input, a Terminal.  Spec and SpecStream draw on a terminal that      *)
(* holds every row; SpecBuffers draws on terminals that do not.            *)
(***************************************************************************)
EXTENDS Integers, Sequences, FiniteSets, TLC

VARIABLES
    app,             \* AppState, owned by the driver loop (state.rs)
    active_session,  \* Arc<Mutex<String>> shared with the transport callback
    pending_run_ids, \* Arc<Mutex<HashMap<run id, session key>>>
    client_rx,       \* the UiChatEvent channel, callback -> driver
    last,            \* history: the step just taken, its inputs and what it saw
    hist,            \* history: the reply being streamed, the lines a frame added,
                     \*          the seconds of silence and of waiting, the sends made
    budget           \* history: frames delivered, lines, commands and keys entered

vars == <<app, active_session, pending_run_ids, client_rx, last, hist, budget>>

\* ------------------------------------------------------------------ bounds
\* chat frames the gateway sends while the client runs
MaxFrames == 1
\* chat frames of a streamed conversation (SpecStream)
MaxStreamFrames == 3
\* lines the user submits
MaxLines == 1
\* local commands (/clear, /agent) the user enters
MaxCommands == 1
\* system frames the gateway sends (SpecBuffers)
MaxSystemFrames == 2
\* keys that switch or scroll a buffer (SpecBuffers)
MaxKeys == 3
\* UiChatEvents waiting in the channel
MaxQueue == 2
\* seconds that pass between two ticks
TimeStep == 100

\* ------------------------------------------------------- Option and HashMap
None == <<>>
Some(x) == <<x>>
IsSome(o) == Len(o) = 1
Unwrap(o) == o[1]

EmptyMap == [k \in {} |-> None]
MapInsert(m, k, v) == [x \in DOMAIN m \cup {k} |-> IF x = k THEN v ELSE m[x]]
MapRemove(m, k) == [x \in DOMAIN m \ {k} |-> m[x]]
MapGet(m, k) == IF k \in DOMAIN m THEN Some(m[k]) ELSE None

\* ------------------------------------------------------------ string helpers
UpperChars == <<"A","B","C","D","E","F","G","H","I","J","K","L","M","N","O","P","Q","R","S","T","U","V","W","X","Y","Z">>
LowerChars == <<"a","b","c","d","e","f","g","h","i","j","k","l","m","n","o","p","q","r","s","t","u","v","w","x","y","z">>

\* char::to_lowercase on the ASCII letters
LowerTable ==
    [c \in {UpperChars[i] : i \in 1..26} |->
        LowerChars[CHOOSE i \in 1..26 : UpperChars[i] = c]]
LowerChar(c) == IF c \in DOMAIN LowerTable THEN LowerTable[c] ELSE c

\* str::to_lowercase
ToLower(s) == [i \in 1..Len(s) |-> LowerChar(s[i])]

IsSpace(c) == c \in {" ", "\t", "\n"}

\* str::trim_start, str::trim_end, str::trim
RECURSIVE TrimStart(_)
TrimStart(s) == IF Len(s) > 0 /\ IsSpace(s[1]) THEN TrimStart(Tail(s)) ELSE s
RECURSIVE TrimEnd(_)
TrimEnd(s) ==
    IF Len(s) > 0 /\ IsSpace(s[Len(s)]) THEN TrimEnd(SubSeq(s, 1, Len(s) - 1)) ELSE s
Trim(s) == TrimEnd(TrimStart(s))

\* str::starts_with
StartsWith(s, p) == Len(s) >= Len(p) /\ SubSeq(s, 1, Len(p)) = p

\* str::split(':'), collected: the parts between the colons, empty parts kept
RECURSIVE SplitFrom(_, _, _)
SplitFrom(s, i, part) ==
    IF i > Len(s) THEN <<part>>
    ELSE IF s[i] = ":" THEN <<part>> \o SplitFrom(s, i + 1, <<>>)
    ELSE SplitFrom(s, i + 1, Append(part, s[i]))
SplitColon(s) == SplitFrom(s, 1, <<>>)

\* [String]::join(":")
RECURSIVE JoinColon(_)
JoinColon(parts) ==
    IF Len(parts) = 0 THEN <<>>
    ELSE IF Len(parts) = 1 THEN parts[1]
    ELSE parts[1] \o <<":">> \o JoinColon(Tail(parts))

\* ------------------------------------------------------- string literals
RUN_DEFAULT_ID == <<"_", "_", "g", "s", "v", "_", "c", "l", "i", "e", "n", "t", "_", "d", "e", "f", "a", "u", "l", "t", "_", "_">>
S_main == <<"m", "a", "i", "n">>
S_agent_colon == <<"a", "g", "e", "n", "t", ":">>
S_agent_main_main == <<"a", "g", "e", "n", "t", ":", "m", "a", "i", "n", ":", "m", "a", "i", "n">>
S_cli == <<"c", "l", "i">>
S_dm == <<"d", "m">>
S_colon_main == <<":", "m", "a", "i", "n">>
S_colon_dm_main == <<":", "d", "m", ":", "m", "a", "i", "n">>
S_colon_dm_colon == <<":", "d", "m", ":">>
S_colon_cli_dm_main == <<":", "c", "l", "i", ":", "d", "m", ":", "m", "a", "i", "n">>
S_queued == <<"q", "u", "e", "u", "e", "d">>
S_pending == <<"p", "e", "n", "d", "i", "n", "g">>
S_started == <<"s", "t", "a", "r", "t", "e", "d">>
S_running == <<"r", "u", "n", "n", "i", "n", "g">>
S_in_progress == <<"i", "n", "_", "p", "r", "o", "g", "r", "e", "s", "s">>
S_delta == <<"d", "e", "l", "t", "a">>
S_partial == <<"p", "a", "r", "t", "i", "a", "l">>
S_streaming == <<"s", "t", "r", "e", "a", "m", "i", "n", "g">>
S_final == <<"f", "i", "n", "a", "l">>
S_done == <<"d", "o", "n", "e">>
S_complete == <<"c", "o", "m", "p", "l", "e", "t", "e">>
S_completed == <<"c", "o", "m", "p", "l", "e", "t", "e", "d">>
S_finished == <<"f", "i", "n", "i", "s", "h", "e", "d">>
S_finalized == <<"f", "i", "n", "a", "l", "i", "z", "e", "d">>
S_complete_success == <<"c", "o", "m", "p", "l", "e", "t", "e", "_", "s", "u", "c", "c", "e", "s", "s">>
S_error == <<"e", "r", "r", "o", "r">>
S_failed == <<"f", "a", "i", "l", "e", "d">>
S_aborted == <<"a", "b", "o", "r", "t", "e", "d">>
S_cancelled == <<"c", "a", "n", "c", "e", "l", "l", "e", "d">>
S_timeout == <<"t", "i", "m", "e", "o", "u", "t">>
S_command == <<"c", "o", "m", "m", "a", "n", "d">>
S_directive == <<"d", "i", "r", "e", "c", "t", "i", "v", "e">>
S_directive_only == <<"d", "i", "r", "e", "c", "t", "i", "v", "e", "-", "o", "n", "l", "y">>

\* ------------------------------------------------ literals of the inputs drawn
K_a_main == <<"a", "g", "e", "n", "t", ":", "a", ":", "m", "a", "i", "n">>
K_a_cli_dm_main == <<"a", "g", "e", "n", "t", ":", "a", ":", "c", "l", "i", ":", "d", "m", ":", "m", "a", "i", "n">>
K_b_main == <<"a", "g", "e", "n", "t", ":", "b", ":", "m", "a", "i", "n">>
K_A_cli == <<"A", "G", "E", "N", "T", ":", "A", ":", "c", "l", "i">>
R_r1 == <<"r", "1">>
R_r2 == <<"r", "2">>
R_r2_padded == <<" ", "r", "2", " ">>
S_bogus == <<"b", "o", "g", "u", "s">>
ID_b == <<"b">>
\* ----------------------------------------------------------------- buffer.rs
\* BufferId, with the Logs variant that state.rs 150, input.rs 93-95 and
\* app.rs 472 use
BufferIds == {"Chat", "System", "Logs"}

\* Buffer::new
Buffer_new(id) ==
    [id |-> id, messages |-> <<>>, scroll |-> 0, auto_follow |-> TRUE, unread |-> 0]

\* Buffer::push
Buffer_push(b, msg, is_active) ==
    [b EXCEPT !.messages = Append(@, msg),
              !.auto_follow = TRUE,
              !.unread = IF ~is_active THEN @ + 1 ELSE @]

\* a Buffer::mark_read that leaves the count
Buffer_mark_read_keeps_count(b) == b

\* Buffer::mark_read
Buffer_mark_read(b) == [b EXCEPT !.unread = 0]


\* ------------------------------------------------------------ program constants
CONNECTION_TIMEOUT_SECS == 120

\* ------------------------------------------------------------------ state.rs
RunPhases == {"Queued", "Running", "Streaming", "Finalizing", "Failed", "Unknown"}

\* RunPhase::is_active
is_active(phase) == phase \in {"Queued", "Running", "Streaming"}

\* normalize_session_key_for_match without the to_lowercase
normalize_session_key_keeps_case(session_key) ==
    LET trimmed == Trim(session_key)
        normalized == trimmed
        parts == SplitColon(normalized)
        agent_id == parts[2]
    IN  IF trimmed = <<>> THEN <<>>
        ELSE IF normalized = S_main THEN S_agent_main_main
        ELSE IF ~StartsWith(normalized, S_agent_colon) THEN normalized
        ELSE IF Len(parts) < 2 THEN normalized
        ELSE IF Len(parts) = 3 /\ parts[3] = S_cli
             THEN S_agent_colon \o agent_id \o S_colon_main
        ELSE IF Len(parts) = 4 /\ parts[3] = S_cli /\ parts[4] = S_dm
             THEN S_agent_colon \o agent_id \o S_colon_dm_main
        ELSE IF Len(parts) >= 5 /\ parts[3] = S_cli /\ parts[4] = S_dm
             THEN IF parts[5] = S_main
                  THEN S_agent_colon \o agent_id \o S_colon_main
                  ELSE S_agent_colon \o agent_id \o S_colon_dm_colon
                           \o JoinColon(SubSeq(parts, 5, Len(parts)))
        ELSE normalized

\* normalize_session_key_for_match
normalize_session_key_for_match(session_key) ==
    LET trimmed == Trim(session_key)
        normalized == ToLower(trimmed)
        parts == SplitColon(normalized)
        agent_id == parts[2]
    IN  IF trimmed = <<>> THEN <<>>
        ELSE IF normalized = S_main THEN S_agent_main_main
        ELSE IF ~StartsWith(normalized, S_agent_colon) THEN normalized
        ELSE IF Len(parts) < 2 THEN normalized
        ELSE IF Len(parts) = 3 /\ parts[3] = S_cli
             THEN S_agent_colon \o agent_id \o S_colon_main
        ELSE IF Len(parts) = 4 /\ parts[3] = S_cli /\ parts[4] = S_dm
             THEN S_agent_colon \o agent_id \o S_colon_dm_main
        ELSE IF Len(parts) >= 5 /\ parts[3] = S_cli /\ parts[4] = S_dm
             THEN IF parts[5] = S_main
                  THEN S_agent_colon \o agent_id \o S_colon_main
                  ELSE S_agent_colon \o agent_id \o S_colon_dm_colon
                           \o JoinColon(SubSeq(parts, 5, Len(parts)))
        ELSE normalized

\* build_agent_session_key
build_agent_session_key(agent) ==
    S_agent_colon \o ToLower(Trim(agent)) \o S_colon_cli_dm_main

\* AppState::new
AppState_new(session_key) ==
    [ messages |-> <<>>,
      streams |-> EmptyMap,
      input_history |-> <<>>,
      session_key |-> session_key,
      status |-> None,
      waiting |-> FALSE,
      waiting_started |-> None,
      active_run_id |-> None,
      run_phases |-> EmptyMap,
      tool_verbosity |-> "Normal",
      active_buffer |-> "Chat",
      system_buffer |-> Buffer_new("System"),
      logs_buffer |-> Buffer_new("Logs"),
      chat_scroll |-> 0,
      chat_auto_follow |-> TRUE ]

\* AppState::switch_buffer
switch_buffer(a, id) ==
    LET a1 == [a EXCEPT !.active_buffer = id]
    IN  CASE id = "System" -> [a1 EXCEPT !.system_buffer = Buffer_mark_read(@)]
          [] id = "Logs" -> [a1 EXCEPT !.logs_buffer = Buffer_mark_read(@)]
          [] id = "Chat" -> a1

\* AppState::set_status
set_status(a, status) == [a EXCEPT !.status = Some(status)]

\* AppState::push_message
push_message(a, role, text) ==
    [a EXCEPT !.messages = Append(@, [role |-> role, text |-> text]),
              !.chat_auto_follow = TRUE]

\* AppState::push_tool_call
push_tool_call(a, tc) ==
    IF a.tool_verbosity = "Quiet" THEN a
    ELSE LET text == IF a.tool_verbosity = "Verbose" /\ IsSome(tc.arguments)
                     THEN "> " \o tc.name \o "  " \o Unwrap(tc.arguments)
                     ELSE "> " \o tc.name
         IN  [a EXCEPT !.messages = Append(@, [role |-> "Tool", text |-> text]),
                       !.chat_auto_follow = TRUE]

\* AppState::append_partial
append_partial(a, run_id, text) ==
    IF text = "" THEN a
    ELSE IF run_id \in DOMAIN a.streams /\ a.streams[run_id] < Len(a.messages)
    THEN [a EXCEPT !.messages[a.streams[run_id] + 1].text = @ \o text]
    ELSE LET idx == Len(a.messages)
             key == IF run_id = RUN_DEFAULT_ID /\ IsSome(a.active_run_id)
                    THEN Unwrap(a.active_run_id)
                    ELSE run_id
         IN  [a EXCEPT !.messages = Append(@, [role |-> "Assistant", text |-> text]),
                       !.streams = MapInsert(@, key, idx)]

\* AppState::set_active_run_id
set_active_run_id(a, run_id) ==
    IF a.active_run_id = Some(run_id) THEN a
    ELSE [a EXCEPT !.active_run_id = Some(run_id)]

\* a set_run_state that starts waiting without starting the timer
set_run_state_without_timer(a, run_id, state) ==
    LET a1 == [a EXCEPT !.run_phases = MapInsert(@, run_id, state)]
        a2 == set_active_run_id(a1, run_id)
    IN  IF is_active(state) THEN [a2 EXCEPT !.waiting = TRUE] ELSE a2

\* AppState::set_run_state.  Instant::now() is an age of 0 seconds.
set_run_state(a, run_id, state) ==
    LET a1 == [a EXCEPT !.run_phases = MapInsert(@, run_id, state)]
        a2 == set_active_run_id(a1, run_id)
    IN  IF is_active(state)
        THEN [a2 EXCEPT !.waiting = TRUE,
                        !.waiting_started = IF @ = None THEN Some(0) ELSE @]
        ELSE a2

\* a touch_activity that leaves the silence timer running
touch_activity_keeps_timer(a) == a

\* AppState::touch_activity
touch_activity(a) ==
    IF a.waiting THEN [a EXCEPT !.waiting_started = Some(0)] ELSE a

\* AppState::pop_run_state: the states it can leave.  HashMap::keys().next()
\* yields any key of the map, so the successor active run id is any key left.
pop_run_state(a, run_id) ==
    LET phases1 == MapRemove(a.run_phases, run_id)
        phases2 == IF run_id \notin DOMAIN a.run_phases /\ IsSome(a.active_run_id)
                   THEN MapRemove(phases1, Unwrap(a.active_run_id))
                   ELSE phases1
        active1 == IF a.active_run_id = Some(run_id) THEN None ELSE a.active_run_id
        actives == IF active1 = None
                   THEN IF DOMAIN phases2 = {} THEN {None}
                        ELSE {Some(k) : k \in DOMAIN phases2}
                   ELSE {active1}
    IN  { [a EXCEPT !.run_phases = phases2,
                    !.active_run_id = act,
                    !.waiting = IF DOMAIN phases2 = {} THEN FALSE ELSE @,
                    !.waiting_started = IF DOMAIN phases2 = {} THEN None ELSE @]
          : act \in actives }

\* a finalize_run that appends the final text to the streamed line
finalize_run_appending(a, active_run_id, run_id, text) ==
    LET idx1 == MapGet(a.streams, run_id)
        streams1 == MapRemove(a.streams, run_id)
        fallback == idx1 = None /\ IsSome(active_run_id)
        idx == IF fallback THEN MapGet(streams1, Unwrap(active_run_id)) ELSE idx1
        streams2 == IF fallback THEN MapRemove(streams1, Unwrap(active_run_id))
                    ELSE streams1
        a1 == [a EXCEPT !.streams = streams2]
    IN  IF IsSome(idx) /\ Unwrap(idx) < Len(a1.messages)
        THEN [a1 EXCEPT !.messages[Unwrap(idx) + 1].text = @ \o text]
        ELSE IF text = "" THEN a1
        ELSE [a1 EXCEPT !.messages = Append(@, [role |-> "Assistant", text |-> text])]

\* a finalize_run that overwrites the streamed line even with an empty text
finalize_run_overwriting(a, active_run_id, run_id, text) ==
    LET idx1 == MapGet(a.streams, run_id)
        streams1 == MapRemove(a.streams, run_id)
        fallback == idx1 = None /\ IsSome(active_run_id)
        idx == IF fallback THEN MapGet(streams1, Unwrap(active_run_id)) ELSE idx1
        streams2 == IF fallback THEN MapRemove(streams1, Unwrap(active_run_id))
                    ELSE streams1
        a1 == [a EXCEPT !.streams = streams2]
    IN  IF IsSome(idx) /\ Unwrap(idx) < Len(a1.messages)
        THEN [a1 EXCEPT !.messages[Unwrap(idx) + 1].text = text]
        ELSE IF text = "" THEN a1
        ELSE [a1 EXCEPT !.messages = Append(@, [role |-> "Assistant", text |-> text])]

\* the rest of AppState::finalize_run, once pop_run_state has left state a
finalize_run_after_pop(a, active_run_id, run_id, text) ==
    LET idx1 == MapGet(a.streams, run_id)
        streams1 == MapRemove(a.streams, run_id)
        fallback == idx1 = None /\ IsSome(active_run_id)
        idx == IF fallback THEN MapGet(streams1, Unwrap(active_run_id)) ELSE idx1
        streams2 == IF fallback THEN MapRemove(streams1, Unwrap(active_run_id))
                    ELSE streams1
        a1 == [a EXCEPT !.streams = streams2]
    IN  IF IsSome(idx) /\ Unwrap(idx) < Len(a1.messages)
        THEN IF text # ""
             THEN [a1 EXCEPT !.messages[Unwrap(idx) + 1].text = text]
             ELSE a1
        ELSE IF text = "" THEN a1
        ELSE [a1 EXCEPT !.messages = Append(@, [role |-> "Assistant", text |-> text])]

\* AppState::finalize_run: the states it can leave
finalize_run(a, run_id, text) ==
    { finalize_run_after_pop(a1, a.active_run_id, run_id, text)
      : a1 \in pop_run_state(a, run_id) }

\* a clear_runs that forgets the active run but keeps the run-phase map
clear_runs_keeps_phases(a) ==
    [a EXCEPT !.active_run_id = None,
              !.waiting = FALSE,
              !.waiting_started = None,
              !.streams = EmptyMap]

\* AppState::clear_runs
clear_runs(a) ==
    [a EXCEPT !.run_phases = EmptyMap,
              !.active_run_id = None,
              !.waiting = FALSE,
              !.waiting_started = None,
              !.streams = EmptyMap]

\* AppState::add_input_history
MAX_INPUT_HISTORY == 200

add_input_history(a, line) ==
    LET h1 == IF Len(a.input_history) = 0 \/ a.input_history[Len(a.input_history)] # line
              THEN Append(a.input_history, line)
              ELSE a.input_history
        h2 == IF Len(h1) > MAX_INPUT_HISTORY THEN Tail(h1) ELSE h1
    IN  IF line = "" THEN a ELSE [a EXCEPT !.input_history = h2]

\* AppState::timeout_if_needed, given the seconds since waiting_started
TimeoutMessage ==
    "Timeout after " \o ToString(CONNECTION_TIMEOUT_SECS) \o " seconds waiting for response"

timeout_fires(a) ==
    a.waiting /\ IsSome(a.waiting_started)
              /\ Unwrap(a.waiting_started) > CONNECTION_TIMEOUT_SECS

\* a timeout_if_needed that reports the timeout and stops waiting but keeps
\* the runs
timeout_if_needed_keeps_runs(a) ==
    IF a.waiting
    THEN LET a1 == [a EXCEPT !.waiting_started = IF @ = None THEN Some(0) ELSE @]
         IN  IF timeout_fires(a1)
             THEN [push_message(a1, "Error", TimeoutMessage)
                      EXCEPT !.waiting = FALSE, !.waiting_started = None]
             ELSE a1
    ELSE a

timeout_if_needed(a) ==
    IF a.waiting
    THEN LET a1 == [a EXCEPT !.waiting_started = IF @ = None THEN Some(0) ELSE @]
         IN  IF timeout_fires(a1)
             THEN LET a2 == push_message(a1, "Error", TimeoutMessage)
                  IN  [clear_runs(a2) EXCEPT !.streams = EmptyMap]
             ELSE a1
    ELSE a

\* usize::saturating_sub
saturating_sub(x, y) == IF x > y THEN x - y ELSE 0

Min(x, y) == IF x < y THEN x ELSE y

\* AppState::max_chat_scroll
max_chat_scroll(line_count, chat_height) ==
    saturating_sub(line_count, IF chat_height < 1 THEN 1 ELSE chat_height)

\* AppState::ensure_chat_scroll
ensure_chat_scroll(a, line_count, chat_height) ==
    LET max_scroll == max_chat_scroll(line_count, chat_height)
    IN  IF a.chat_auto_follow THEN [a EXCEPT !.chat_scroll = max_scroll]
        ELSE IF a.chat_scroll > max_scroll THEN [a EXCEPT !.chat_scroll = max_scroll]
        ELSE IF a.chat_scroll >= max_scroll THEN [a EXCEPT !.chat_auto_follow = TRUE]
        ELSE a

\* AppState::scroll_chat_up
scroll_chat_up(a, lines) ==
    [a EXCEPT !.chat_auto_follow = FALSE, !.chat_scroll = saturating_sub(@, lines)]

\* AppState::scroll_chat_down; the offsets reached stay far below usize::MAX,
\* where saturating_add is the sum
scroll_chat_down(a, lines) ==
    [a EXCEPT !.chat_auto_follow = FALSE, !.chat_scroll = @ + lines]

\* AppState::scroll_chat_to_top
scroll_chat_to_top(a) == [a EXCEPT !.chat_auto_follow = FALSE, !.chat_scroll = 0]

\* AppState::scroll_chat_to_bottom
scroll_chat_to_bottom(a) == [a EXCEPT !.chat_auto_follow = TRUE]

\* ----------------------------------------------------------------- events.rs
\* a from_raw that lower-cases its input without trimming it
from_raw_untrimmed(raw) ==
    LET state == ToLower(IF IsSome(raw) THEN Unwrap(raw) ELSE <<>>)
    IN  IF state \in {S_queued, S_pending} THEN "Queued"
        ELSE IF state \in {S_started, S_running, S_in_progress} THEN "Started"
        ELSE IF state \in {S_delta, S_partial, S_streaming} THEN "Streaming"
        ELSE IF state \in {S_final, S_done, S_complete, S_completed, S_finished,
                           S_finalized, S_complete_success} THEN "Final"
        ELSE IF state \in {S_error, S_failed, S_aborted, S_cancelled, S_timeout}
             THEN "Error"
        ELSE "Unknown"

\* ParsedChatEventState::from_raw
from_raw(raw) ==
    LET state == ToLower(Trim(IF IsSome(raw) THEN Unwrap(raw) ELSE <<>>))
    IN  IF state \in {S_queued, S_pending} THEN "Queued"
        ELSE IF state \in {S_started, S_running, S_in_progress} THEN "Started"
        ELSE IF state \in {S_delta, S_partial, S_streaming} THEN "Streaming"
        ELSE IF state \in {S_final, S_done, S_complete, S_completed, S_finished,
                           S_finalized, S_complete_success} THEN "Final"
        ELSE IF state \in {S_error, S_failed, S_aborted, S_cancelled, S_timeout}
             THEN "Error"
        ELSE "Unknown"

\* an as_run_phase that takes a started run for a queued one
as_run_phase_started_queued(state) ==
    CASE state = "Queued" -> Some("Queued")
      [] state = "Started" -> Some("Queued")
      [] state = "Streaming" -> Some("Streaming")
      [] state = "Final" -> Some("Finalizing")
      [] state = "Error" -> Some("Failed")
      [] OTHER -> None

\* ParsedChatEventState::as_run_phase
as_run_phase(state) ==
    CASE state = "Queued" -> Some("Queued")
      [] state = "Started" -> Some("Running")
      [] state = "Streaming" -> Some("Streaming")
      [] state = "Final" -> Some("Finalizing")
      [] state = "Error" -> Some("Failed")
      [] OTHER -> None

\* ParsedSendStatus::parse
ParsedSendStatus_parse(raw) ==
    LET status == ToLower(Trim(IF IsSome(raw) THEN Unwrap(raw) ELSE <<>>))
    IN  IF status \in {S_started, S_running} THEN "Started"
        ELSE IF status = S_queued THEN "Queued"
        ELSE IF status \in {S_command, S_directive, S_directive_only} THEN "Command"
        ELSE IF status = S_error THEN "Error"
        ELSE "Unknown"

\* parse_run_id
parse_run_id(payload) ==
    IF IsSome(payload.runId) /\ Trim(Unwrap(payload.runId)) # <<>>
    THEN Some(Trim(Unwrap(payload.runId)))
    ELSE None

\* a parse_send_result that reads the run id of a started run only
parse_send_result_started_only(payload) ==
    LET status == ParsedSendStatus_parse(payload.status)
    IN  [ directive |-> status = "Command",
          run_id |-> IF status = "Started" THEN parse_run_id(payload) ELSE None,
          run_status |-> IF status = "Started" THEN Some("Running")
                         ELSE IF status = "Queued" THEN Some("Queued")
                         ELSE None,
          response |-> IF status = "Command" THEN payload.response ELSE None,
          error |-> payload.error ]

\* parse_send_result
parse_send_result(payload) ==
    LET status == ParsedSendStatus_parse(payload.status)
    IN  [ directive |-> status = "Command",
          run_id |-> IF status \in {"Started", "Queued"} THEN parse_run_id(payload)
                     ELSE None,
          run_status |-> IF status = "Started" THEN Some("Running")
                         ELSE IF status = "Queued" THEN Some("Queued")
                         ELSE None,
          response |-> IF status = "Command" THEN payload.response ELSE None,
          error |-> payload.error ]

\* format_tool_args, for arguments that are a JSON string (kind "string") or
\* another non-object value (kind "other", str its serialization)
format_tool_args(args) == args.str

\* extract_content_blocks, the loop over a block array
RECURSIVE extract_blocks_loop(_, _, _)
extract_blocks_loop(arr, text_parts, tool_calls) ==
    IF Len(arr) = 0
    THEN [text_parts |-> text_parts, tool_calls |-> tool_calls]
    ELSE LET block == Head(arr)
         IN  IF block.type = Some("text")
             THEN extract_blocks_loop(Tail(arr),
                      IF IsSome(block.text) /\ Unwrap(block.text) # ""
                      THEN Append(text_parts, Unwrap(block.text)) ELSE text_parts,
                      tool_calls)
             ELSE IF block.type = Some("toolCall")
             THEN extract_blocks_loop(Tail(arr), text_parts,
                      IF IsSome(block.name)
                      THEN Append(tool_calls,
                               [name |-> Unwrap(block.name),
                                arguments |-> IF IsSome(block.arguments)
                                              THEN Some(format_tool_args(Unwrap(block.arguments)))
                                              ELSE None])
                      ELSE tool_calls)
             ELSE extract_blocks_loop(Tail(arr), text_parts, tool_calls)

\* [String]::join("\n")
RECURSIVE JoinNewline(_)
JoinNewline(parts) ==
    IF Len(parts) = 0 THEN ""
    ELSE IF Len(parts) = 1 THEN parts[1]
    ELSE parts[1] \o "\n" \o JoinNewline(Tail(parts))

\* extract_content_blocks
extract_content_blocks(content) ==
    IF content.kind = "string"
    THEN [text |-> Some(content.str), tool_calls |-> <<>>]
    ELSE IF content.kind = "array"
    THEN LET r == extract_blocks_loop(content.arr, <<>>, <<>>)
         IN  [text |-> IF Len(r.text_parts) = 0 THEN None
                       ELSE Some(JoinNewline(r.text_parts)),
              tool_calls |-> r.tool_calls]
    ELSE [text |-> IF content.str = "" THEN None ELSE Some(content.str),
          tool_calls |-> <<>>]

\* extract_content_from_payload looking at payload.text before payload.message
extract_content_text_first(payload) ==
    IF IsSome(payload.text)
    THEN [text |-> payload.text, tool_calls |-> <<>>]
    ELSE IF IsSome(payload.message) /\ IsSome(Unwrap(payload.message).content)
    THEN extract_content_blocks(Unwrap(Unwrap(payload.message).content))
    ELSE IF IsSome(payload.message) /\ IsSome(Unwrap(payload.message).text)
    THEN [text |-> Unwrap(payload.message).text, tool_calls |-> <<>>]
    ELSE [text |-> None, tool_calls |-> <<>>]

\* extract_content_from_payload
extract_content_from_payload(payload) ==
    IF IsSome(payload.message) /\ IsSome(Unwrap(payload.message).content)
    THEN extract_content_blocks(Unwrap(Unwrap(payload.message).content))
    ELSE IF IsSome(payload.message) /\ IsSome(Unwrap(payload.message).text)
    THEN [text |-> Unwrap(payload.message).text, tool_calls |-> <<>>]
    ELSE IF IsSome(payload.text)
    THEN [text |-> payload.text, tool_calls |-> <<>>]
    ELSE [text |-> None, tool_calls |-> <<>>]

\* UiChatEvent
RunState(run_id, state) ==
    [type |-> "RunState", run_id |-> run_id, state |-> state, text |-> "",
     tool_calls |-> <<>>]
AssistantChunk(run_id, text) ==
    [type |-> "AssistantChunk", run_id |-> run_id, state |-> "", text |-> text,
     tool_calls |-> <<>>]
AssistantFinal(run_id, text, tool_calls) ==
    [type |-> "AssistantFinal", run_id |-> run_id, state |-> "", text |-> text,
     tool_calls |-> tool_calls]
ErrorEvent(run_id, text) ==
    [type |-> "Error", run_id |-> run_id, state |-> "", text |-> text,
     tool_calls |-> <<>>]
SystemEvent(payload) == [type |-> "SystemEvent", payload |-> payload]

\* ------------------------------------------------- app.rs: transport callback
\* a session filter that takes any explicit sessionKey for the active one
session_filter_any_explicit(payload, active, pending) ==
    LET run_id == parse_run_id(payload)
        mapped_session == IF IsSome(run_id) THEN MapGet(pending, Unwrap(run_id))
                          ELSE None
    IN  \/ IsSome(payload.sessionKey)
        \/ mapped_session = Some(active)

\* the session filter of connect_ws's closure (app.rs 545-568)
session_filter_accepts(payload, active, pending) ==
    LET run_id == parse_run_id(payload)
        payload_session == IF IsSome(payload.sessionKey)
                           THEN Some(normalize_session_key_for_match(Unwrap(payload.sessionKey)))
                           ELSE None
        mapped_session == IF IsSome(run_id) THEN MapGet(pending, Unwrap(run_id))
                          ELSE None
    IN  \/ payload_session = Some(active)
        \/ mapped_session = Some(active)

\* the UiChatEvents the closure sends for an accepted chat payload, in order
\* (app.rs 570-629)
events_for_payload(payload) ==
    LET run_id == parse_run_id(payload)
        run_id_for_events == IF IsSome(run_id) THEN Unwrap(run_id) ELSE RUN_DEFAULT_ID
        state == from_raw(payload.state)
        phase == as_run_phase(state)
        run_state == IF IsSome(phase)
                     THEN <<RunState(run_id_for_events, Unwrap(phase))>> ELSE <<>>
        extracted == extract_content_from_payload(payload)
        has_text == IsSome(extracted.text) /\ Unwrap(extracted.text) # ""
        has_content == has_text \/ Len(extracted.tool_calls) > 0
        text_or_default == IF IsSome(extracted.text) THEN Unwrap(extracted.text) ELSE ""
        content ==
            IF has_content
            THEN CASE state = "Streaming" ->
                        IF IsSome(extracted.text)
                        THEN <<AssistantChunk(run_id_for_events, Unwrap(extracted.text))>>
                        ELSE <<>>
                   [] state \in {"Final", "Unknown"} ->
                        <<AssistantFinal(run_id_for_events, text_or_default,
                                         extracted.tool_calls)>>
                   [] state = "Error" ->
                        <<ErrorEvent(Some(run_id_for_events), text_or_default)>>
                   [] OTHER -> <<>>
            ELSE IF state = "Final"
            THEN <<AssistantFinal(run_id_for_events, "", <<>>)>>
            ELSE IF IsSome(payload.error)
            THEN <<ErrorEvent(Some(run_id_for_events), Unwrap(payload.error))>>
            ELSE <<>>
    IN  run_state \o content

\* ------------------------------------------------------------------ input.rs
CHAT_SCROLL_PAGE_SIZE == 8

\* scroll_active_up
scroll_active_up(a, lines) ==
    CASE a.active_buffer = "Chat" -> scroll_chat_up(a, lines)
      [] a.active_buffer = "System" ->
           [a EXCEPT !.system_buffer.auto_follow = FALSE,
                     !.system_buffer.scroll = saturating_sub(@, lines)]
      [] a.active_buffer = "Logs" ->
           [a EXCEPT !.logs_buffer.auto_follow = FALSE,
                     !.logs_buffer.scroll = saturating_sub(@, lines)]

\* scroll_active_down
scroll_active_down(a, lines) ==
    CASE a.active_buffer = "Chat" -> scroll_chat_down(a, lines)
      [] a.active_buffer = "System" ->
           [a EXCEPT !.system_buffer.auto_follow = FALSE,
                     !.system_buffer.scroll = @ + lines]
      [] a.active_buffer = "Logs" ->
           [a EXCEPT !.logs_buffer.auto_follow = FALSE,
                     !.logs_buffer.scroll = @ + lines]

\* scroll_active_top
scroll_active_top(a) ==
    CASE a.active_buffer = "Chat" -> scroll_chat_to_top(a)
      [] a.active_buffer = "System" ->
           [a EXCEPT !.system_buffer.auto_follow = FALSE, !.system_buffer.scroll = 0]
      [] a.active_buffer = "Logs" ->
           [a EXCEPT !.logs_buffer.auto_follow = FALSE, !.logs_buffer.scroll = 0]

\* scroll_active_bottom
scroll_active_bottom(a) ==
    CASE a.active_buffer = "Chat" -> scroll_chat_to_bottom(a)
      [] a.active_buffer = "System" -> [a EXCEPT !.system_buffer.auto_follow = TRUE]
      [] a.active_buffer = "Logs" -> [a EXCEPT !.logs_buffer.auto_follow = TRUE]

\* the keys of handle_key that switch or scroll the active buffer
Keys == {"Alt+1", "Alt+2", "Alt+3", "PageUp", "PageDown", "Home", "End"}

\* handle_key, the AppState it leaves (every arm here returns Consumed)
handle_key(a, key) ==
    CASE key = "Alt+1" -> switch_buffer(a, "Chat")
      [] key = "Alt+2" -> switch_buffer(a, "System")
      [] key = "Alt+3" -> switch_buffer(a, "Logs")
      [] key = "PageUp" -> scroll_active_up(a, CHAT_SCROLL_PAGE_SIZE)
      [] key = "PageDown" -> scroll_active_down(a, CHAT_SCROLL_PAGE_SIZE)
      [] key = "Home" -> scroll_active_top(a)
      [] key = "End" -> scroll_active_bottom(a)

\* -------------------------------------------------- app.rs: system events, draw
\* handle_system_event.  SystemState (system.rs), which only the system
\* widget reads, is not part of the state.
handle_system_event(a, payload) ==
    LET is_sys == a.active_buffer = "System"
        push(role, text) ==
            [a EXCEPT !.system_buffer =
                          Buffer_push(@, [role |-> role, text |-> text], is_sys)]
    IN  CASE payload.event = "system.node" /\ payload.action = "connected" ->
               push("System", "node connected: " \o payload.nodeId \o " ("
                                  \o payload.hostOs \o ", "
                                  \o ToString(payload.toolCount) \o " tools)")
          [] payload.event = "system.node" /\ payload.action = "disconnected" ->
               push("Error", "node disconnected: " \o payload.nodeId)
          [] payload.event = "system.channel" ->
               push(IF payload.connected THEN "System" ELSE "Error",
                    (IF payload.connected THEN "channel connected: "
                     ELSE "channel disconnected: ")
                        \o payload.channel \o ":" \o payload.accountId)
          [] OTHER -> a

\* the scroll offset draw renders the active buffer at, given the rows the
\* buffer's widget built (lines.len()) and the height of the content area
clamped_scroll(a, line_count, content_height) ==
    CASE a.active_buffer = "Chat" ->
           Min(a.chat_scroll, max_chat_scroll(line_count, content_height))
      [] a.active_buffer = "System" ->
           Min(a.system_buffer.scroll, saturating_sub(line_count, content_height))
      [] a.active_buffer = "Logs" ->
           Min(a.logs_buffer.scroll, saturating_sub(line_count, content_height))

\* draw, the AppState it leaves
draw(a, line_count, content_height) ==
    CASE a.active_buffer = "Chat" ->
           ensure_chat_scroll(a, line_count, content_height)
      [] a.active_buffer = "System" ->
           IF a.system_buffer.auto_follow
           THEN [a EXCEPT !.system_buffer.scroll =
                              saturating_sub(line_count, content_height)]
           ELSE a
      [] a.active_buffer = "Logs" ->
           IF a.logs_buffer.auto_follow
           THEN [a EXCEPT !.logs_buffer.scroll =
                              saturating_sub(line_count, content_height)]
           ELSE a

\* ------------------------------------------------------ app.rs: driver handlers
\* Rust `format!` of a character sequence into a message text
RECURSIVE Text(_)
Text(s) == IF Len(s) = 0 THEN "" ELSE Head(s) \o Text(Tail(s))

\* extract_agent_from_session_key(..).unwrap_or("unknown")
agent_of_session_key(session_key) ==
    LET parts == SplitColon(session_key)
    IN  IF parts[1] = <<"a", "g", "e", "n", "t">> /\ Len(parts) >= 2
        THEN Text(parts[2]) ELSE "unknown"

\* session_display_name
session_display_name(session_key) ==
    LET parts == SplitColon(session_key)
    IN  Text(parts[Len(parts)]) \o " (" \o agent_of_session_key(session_key) \o ")"

no_active_run(a) == \A r \in DOMAIN a.run_phases : ~is_active(a.run_phases[r])

RECURSIVE push_tool_calls(_, _)
push_tool_calls(a, tool_calls) ==
    IF Len(tool_calls) = 0 THEN a
    ELSE push_tool_calls(push_tool_call(a, Head(tool_calls)), Tail(tool_calls))

\* handle_chat_event: the (AppState, pending_run_ids) pairs it can leave
handle_chat_event(event, a0, pending) ==
    LET a == touch_activity(a0)
    IN  CASE event.type = "RunState" ->
               LET a1 == set_run_state(a, event.run_id, event.state)
                   p1 == IF event.state \in {"Finalizing", "Failed"}
                         THEN MapRemove(pending, event.run_id) ELSE pending
                   a2 == IF no_active_run(a1)
                         THEN [a1 EXCEPT !.waiting = FALSE, !.waiting_started = None]
                         ELSE a1
               IN  {[app |-> a2, pending |-> p1]}
          [] event.type = "AssistantChunk" ->
               {[app |-> append_partial(a, event.run_id, event.text), pending |-> pending]}
          [] event.type = "AssistantFinal" ->
               {[app |-> push_tool_calls(a1, event.tool_calls),
                 pending |-> MapRemove(pending, event.run_id)]
                : a1 \in finalize_run(a, event.run_id, event.text)}
          [] event.type = "SystemEvent" ->
               {[app |-> handle_system_event(a, event.payload), pending |-> pending]}
          [] event.type = "Error" ->
               LET popped == IF IsSome(event.run_id)
                             THEN pop_run_state(a, Unwrap(event.run_id))
                             ELSE {clear_runs(a)}
                   p1 == IF IsSome(event.run_id)
                         THEN MapRemove(pending, Unwrap(event.run_id))
                         ELSE EmptyMap
               IN  {[app |-> [push_message([a1 EXCEPT !.streams = EmptyMap],
                                           "Error", event.text)
                                 EXCEPT !.waiting = FALSE,
                                        !.waiting_started = None,
                                        !.active_run_id = None],
                     pending |-> p1]
                    : a1 \in popped}

\* handle_submit up to the point where it calls send_chat (app.rs 208-215)
handle_submit_begin(line, a0) ==
    LET a1 == push_message(add_input_history(a0, line), "User", line)
    IN  [a1 EXCEPT !.status = None, !.waiting = TRUE, !.waiting_started = Some(0)]

\* handle_submit from the point where send_chat has returned sent
\* (app.rs 217-261)
handle_submit_ack(a, pending, sent) ==
    IF ~sent.ok
        THEN {[app |-> push_message(
                           clear_runs([a EXCEPT !.waiting = FALSE,
                                                !.waiting_started = None]),
                           "Error", "send failed: " \o sent.err),
               pending |-> EmptyMap]}
        ELSE LET result == parse_send_result(sent.payload)
                 b1 == IF IsSome(result.response)
                       THEN push_message(a, "System", Unwrap(result.response)) ELSE a
                 b2 == IF IsSome(result.error)
                       THEN push_message(b1, "Error", "send failed: " \o Unwrap(result.error))
                       ELSE b1
                 p1 == IF IsSome(result.run_id)
                       THEN MapInsert(pending, Unwrap(result.run_id), b2.session_key)
                       ELSE pending
                 b3 == IF IsSome(result.run_id)
                       THEN set_run_state(b2, Unwrap(result.run_id),
                                IF IsSome(result.run_status) THEN Unwrap(result.run_status)
                                ELSE "Queued")
                       ELSE IF ~result.directive
                       THEN push_message(b2, "System",
                                "assistant state unknown; still waiting for response")
                       ELSE b2
                 b4 == [b3 EXCEPT !.waiting = FALSE, !.waiting_started = None,
                                  !.streams = EmptyMap, !.active_run_id = None]
             IN  IF result.directive
                 THEN IF IsSome(result.run_id)
                      THEN {[app |-> b5, pending |-> p1]
                            : b5 \in pop_run_state(b4, Unwrap(result.run_id))}
                      ELSE {[app |-> b4, pending |-> p1]}
                 ELSE {[app |-> b3, pending |-> p1]}

\* handle_submit, given the outcome of send_chat: the pairs it can leave
handle_submit(line, a0, pending, sent) ==
    handle_submit_ack(handle_submit_begin(line, a0), pending, sent)

\* load_session_history, given the outcome of session.preview; the Err arm is
\* the message its callers push (app.rs 89-94, commands.rs 717-722).  The
\* previews drawn hold no messages, so the loop over them loads nothing.
load_session_history(a, preview) ==
    IF ~preview.ok
    THEN push_message(a, "Error", "Failed to load session history: " \o preview.err)
    ELSE LET a1 == [clear_runs(a) EXCEPT !.waiting = FALSE, !.waiting_started = None,
                                         !.streams = EmptyMap, !.messages = <<>>,
                                         !.status = Some("loading history")]
             a2 == push_message(a1, "System",
                       IF preview.messageCount = 0 THEN "No prior messages"
                       ELSE "No displayable prior messages ("
                                \o ToString(preview.messageCount) \o " total)")
         IN  [a2 EXCEPT !.status = Some("connected")]

\* a /clear that leaves the stream map as it is
exec_clear_keeps_streams(a) ==
    push_message(set_status([clear_runs(a) EXCEPT !.messages = <<>>,
                                                  !.streams = a.streams], "ready"),
                 "System", "cleared conversation")

\* a /clear that empties the transcript but keeps the runs
exec_clear_transcript_only(a) ==
    push_message(set_status([a EXCEPT !.messages = <<>>], "ready"),
                 "System", "cleared conversation")

\* the "/clear" arm of commands::execute
exec_clear(a) ==
    push_message(set_status([clear_runs(a) EXCEPT !.messages = <<>>], "ready"),
                 "System", "cleared conversation")

\* a do_switch that also starts the input history afresh
do_switch_forgets_history(a, target_session, preview) ==
    load_session_history(clear_runs([a EXCEPT !.session_key = target_session,
                                              !.input_history = <<>>]), preview)

\* do_switch, the AppState part
do_switch(a, target_session, preview) ==
    load_session_history(clear_runs([a EXCEPT !.session_key = target_session]), preview)

\* the switching arm of exec_agent
exec_agent(a, target, preview) ==
    LET session_key == normalize_session_key_for_match(build_agent_session_key(Trim(target)))
    IN  push_message(do_switch(a, session_key, preview), "System",
            "Switched to agent " \o Text(Trim(target)) \o " ("
                \o session_display_name(session_key) \o ")")

\* the "/tools <level>" arms of exec_tools that set a level
exec_tools(a, level) ==
    CASE level = "quiet" ->
           push_message([a EXCEPT !.tool_verbosity = "Quiet"], "System",
                        "Tool display: quiet (hidden)")
      [] level = "normal" ->
           push_message([a EXCEPT !.tool_verbosity = "Normal"], "System",
                        "Tool display: normal (names shown, results truncated)")
      [] level = "verbose" ->
           push_message([a EXCEPT !.tool_verbosity = "Verbose"], "System",
                        "Tool display: verbose (names + args + full results)")

\* ------------------------------------------------------------------- inputs
\* content blocks of a message payload
TextBlock(t) == [type |-> Some("text"), text |-> Some(t), name |-> None, arguments |-> None]
ToolCallBlock(n, args) ==
    [type |-> Some("toolCall"), text |-> None, name |-> Some(n), arguments |-> args]
StringContent(t) == [kind |-> "string", str |-> t, arr |-> <<>>]
ArrayContent(blocks) == [kind |-> "array", str |-> "", arr |-> blocks]
MessageContent(c) == Some([content |-> Some(c), text |-> None])

\* the message / text / error parts of the chat payloads drawn
Bodies ==
    { [message |-> None, text |-> None, error |-> None],
      [message |-> None, text |-> None, error |-> Some("boom")],
      [message |-> MessageContent(StringContent("Hel")), text |-> None, error |-> None],
      [message |-> MessageContent(ArrayContent(
                       <<TextBlock("lo"),
                         ToolCallBlock("bash", Some([kind |-> "string", str |-> "ls"]))>>)),
       text |-> None, error |-> None] }

RawRunIds == {None, Some(R_r1), Some(R_r2_padded)}
RawSessionKeys == {None, Some(K_A_cli), Some(K_b_main)}
RawStates == {Some(S_queued), Some(S_started), Some(S_delta), Some(S_final),
              Some(S_error), Some(S_bogus)}

\* payloads of the "chat" frames drawn
ChatPayload(r, k, s, b) ==
    [runId |-> r, sessionKey |-> k, state |-> s,
     message |-> b.message, text |-> b.text, error |-> b.error]
NoBody == [message |-> None, text |-> None, error |-> None]

\* payloads of system frames: a node connecting and disconnecting, a channel
\* going down, and an event handle_system_event does not know
SystemPayload(event, action, connected) ==
    [event |-> event, action |-> action, nodeId |-> "n1", hostOs |-> "linux",
     toolCount |-> 2, channel |-> "discord", accountId |-> "default",
     connected |-> connected]
SystemPayloads ==
    { SystemPayload("system.node", "connected", FALSE),
      SystemPayload("system.node", "disconnected", FALSE),
      SystemPayload("system.channel", "", FALSE),
      SystemPayload("system.other", "", FALSE) }

\* the terminal at a draw: the rows the active buffer's widget built for its
\* width (lines.len()) and the height of the content area (app.rs 437-438)
Terminal(line_count, content_height) ==
    [line_count |-> line_count, content_height |-> content_height]

\* a content area that holds every row built, so that max_scroll is 0
Roomy == Terminal(20, 20)

\* content areas of 4 rows holding all the rows built, or 8 rows too few
Terminals == {Terminal(4, 4), Terminal(12, 4)}

\* draw on a terminal
drawn(a, term) == draw(a, term.line_count, term.content_height)

\* frames the callback ignores
OtherFrames == { [event |-> "chat", payload |-> None],
                 [event |-> "presence", payload |-> None] }

\* outcomes of send_chat: a transport error, or the gateway's acknowledgement
SendAck(status, runId, response, error) ==
    [ok |-> TRUE, err |-> "",
     payload |-> [status |-> status, runId |-> runId, response |-> response, error |-> error]]
SendOutcomes ==
    { [ok |-> FALSE, err |-> "connection closed",
       payload |-> [status |-> None, runId |-> None, response |-> None, error |-> None]],
      SendAck(Some(S_started), Some(R_r1), None, None),
      SendAck(Some(S_queued), Some(R_r2_padded), None, None),
      SendAck(Some(S_started), None, None, None),
      SendAck(Some(S_command), None, Some("stopped"), None),
      SendAck(Some(S_error), None, None, Some("rejected")) }

\* lines for which commands::execute returns NotCommand or Forward
ChatLines == {"hi"}

\* outcomes of session.preview
Previews ==
    { [ok |-> FALSE, err |-> "connection closed", messageCount |-> 0],
      [ok |-> TRUE, err |-> "", messageCount |-> 0] }

\* session keys the client is started with
StartKeys == {K_a_main, K_a_cli_dm_main}
AgentTargets == {ID_b}

\* ------------------------------------------------------------------ history
CountRole(messages, role) ==
    Cardinality({i \in 1..Len(messages) : messages[i].role = role})

\* the lines of `after` that are new or differ from `before`
ChangedLines(before, after) ==
    {i \in 1..Len(after) : i > Len(before) \/ after[i] # before[i]}

NoReply == [run |-> None, lines |-> {}, text |-> ""]

\* the run an event names
EventRun(ev) ==
    CASE ev.type = "Error" -> Unwrap(ev.run_id)
      [] ev.type = "SystemEvent" -> <<>>
      [] OTHER -> ev.run_id

\* The reply being streamed: the run whose Streaming frames with text the
\* driver has been processing without any other event or command between
\* them, the transcript lines those chunks touched and the text they left.
NextReply(reply, entry, before, after) ==
    LET ev == entry.ev
        origin == entry.origin
        r == EventRun(ev)
        mine == IF reply.run = Some(r) THEN reply ELSE [NoReply EXCEPT !.run = Some(r)]
        changed == ChangedLines(before, after)
    IN  IF origin.has_text /\ ev.type = "RunState" THEN mine
        ELSE IF origin.has_text /\ ev.type = "AssistantChunk"
        THEN [mine EXCEPT !.lines = @ \cup changed,
                          !.text = IF changed = {} THEN ""
                                   ELSE after[CHOOSE i \in changed : TRUE].text]
        ELSE IF origin.cls = "Final" /\ ev.type = "RunState" /\ reply.run = Some(r)
        THEN reply
        ELSE NoReply

\* frames of a streamed conversation: the deltas and the final of run r1,
\* tagged for the active session, and the failure of another run
StreamFrames ==
    { ChatPayload(Some(R_r1), Some(K_A_cli), s, b)
      : s \in {Some(S_delta), Some(S_final)}, b \in Bodies }
    \cup { ChatPayload(Some(R_r2_padded), Some(K_A_cli), Some(S_error), NoBody) }

\* acknowledgements while a reply streams
StreamSends ==
    { SendAck(Some(S_started), None, None, None),
      SendAck(Some(S_command), None, Some("stopped"), None) }

\* the line forwarded while a reply streams (commands.rs 134-138)
StreamLines == {"/stop"}

\* ---------------------------------------------------------------------- Init
\* run(): the state when the event loop is entered (app.rs 67-126), the
\* session history loaded and empty
WelcomeMessage == "GSV TUI client. Type /help for controls. Alt+1/2/3 to switch buffers."
Url == "ws://gateway"

InitFrom(keys) ==
    \E session_key \in keys :
        /\ active_session = normalize_session_key_for_match(session_key)
        /\ pending_run_ids = EmptyMap
        /\ client_rx = <<>>
        /\ app = push_message(
                     load_session_history(
                         set_status(AppState_new(session_key),
                                    "connected to " \o Url \o " (session "
                                        \o session_display_name(session_key) \o ")"),
                         [ok |-> TRUE, err |-> "", messageCount |-> 0]),
                     "System", WelcomeMessage)
        /\ last = [op |-> "init"]
        /\ hist = [reply |-> NoReply, errs |-> 0, silence |-> 0, waited |-> 0,
                   sends |-> 0]
        /\ budget = [frames |-> 0, lines |-> 0, commands |-> 0, keys |-> 0]

Init == InitFrom(StartKeys)

\* ------------------------------------------------------------------- actions
\* what the callback's session filter saw of a chat payload
FilterView(payload) ==
    LET run_id == parse_run_id(payload)
    IN  [explicit |-> IF payload.sessionKey = None THEN "none"
                      ELSE IF normalize_session_key_for_match(Unwrap(payload.sessionKey))
                                  = active_session
                      THEN "match" ELSE "mismatch",
         mapped |-> IF IsSome(run_id) THEN MapGet(pending_run_ids, Unwrap(run_id))
                    ELSE None]

\* connect_ws's closure past the session filter (app.rs 570-629): the frame's
\* UiChatEvents go onto the channel.
CallbackAccept(payload, view) ==
    LET evs == events_for_payload(payload)
        cls == from_raw(payload.state)
        extracted == extract_content_from_payload(payload)
        has_text == cls = "Streaming" /\ IsSome(extracted.text)
                        /\ Unwrap(extracted.text) # ""
        origin(i) == [cls |-> cls, has_text |-> has_text, first |-> i = 1,
                      fin |-> i = Len(evs)]
    IN  /\ Len(client_rx) + Len(evs) <= MaxQueue
        /\ client_rx' = client_rx \o [i \in 1..Len(evs) |-> [ev |-> evs[i], origin |-> origin(i)]]
        /\ budget' = [budget EXCEPT !.frames = @ + 1]
        /\ last' = [op |-> "frame", accepted |-> TRUE, sent |-> Len(evs),
                    explicit |-> view.explicit, mapped |-> view.mapped]
        /\ UNCHANGED <<app, active_session, pending_run_ids, hist>>

\* connect_ws's closure when the session filter drops the frame (the `return`
\* of app.rs 567).
CallbackDrop(payload, view) ==
    /\ budget' = [budget EXCEPT !.frames = @ + 1]
    /\ last' = [op |-> "frame", accepted |-> FALSE, sent |-> 0,
                explicit |-> view.explicit, mapped |-> view.mapped]
    /\ UNCHANGED <<app, active_session, pending_run_ids, client_rx, hist>>

\* The transport thread runs connect_ws's closure on a chat frame whose runId
\* and sessionKey are r and k.  The filter reads nothing else of the payload,
\* so a frame that is dropped stands for every state and body it may carry.
Callback(r, k) ==
    LET head == ChatPayload(r, k, None, NoBody)
    IN  /\ budget.frames < MaxFrames
        /\ \E view \in {FilterView(head)} :
               IF session_filter_accepts(head, active_session, pending_run_ids)
               THEN \E s \in RawStates, b \in Bodies :
                        CallbackAccept(ChatPayload(r, k, s, b), view)
               ELSE CallbackDrop(head, view)

\* The closure on one frame of a streamed conversation.
StreamCallback(payload) ==
    /\ budget.frames < MaxStreamFrames
    /\ \E view \in {FilterView(payload)} :
           IF session_filter_accepts(payload, active_session, pending_run_ids)
           THEN CallbackAccept(payload, view)
           ELSE CallbackDrop(payload, view)

\* The closure on a frame that is no chat event, or a chat event without a
\* payload (app.rs 532-538).
CallbackIgnore(frame) ==
    /\ frame.event # "chat" \/ frame.payload = None
    /\ UNCHANGED vars

\* header::render's unread count of a buffer tab (header.rs 22-26), and the
\* count the logs buffer keeps
unread(a, buf_id) ==
    CASE buf_id = "System" -> a.system_buffer.unread
      [] buf_id = "Logs" -> a.logs_buffer.unread
      [] buf_id = "Chat" -> 0

\* the lines of a buffer
lines_of(a, buf_id) ==
    CASE buf_id = "System" -> a.system_buffer.messages
      [] buf_id = "Logs" -> a.logs_buffer.messages
      [] buf_id = "Chat" -> a.messages

Unreads(a) == [active |-> a.active_buffer, unread |-> [b \in BufferIds |-> unread(a, b)]]

\* what the client tracks of runs: the active runs, the runs with a streamed
\* line and the runs awaiting their first event
Tracked ==
    [active |-> {r \in DOMAIN app.run_phases : is_active(app.run_phases[r])},
     streams |-> DOMAIN app.streams,
     pending |-> DOMAIN pending_run_ids]

\* The driver loop takes the next UiChatEvent off the channel and draws on
\* terminal `term` (app.rs 185-192).
DriveOn(term) ==
    /\ Len(client_rx) > 0
    /\ LET entry == Head(client_rx)
       IN  \E out \in handle_chat_event(entry.ev, app, pending_run_ids) :
               /\ app' = drawn(out.app, term)
               /\ pending_run_ids' = out.pending
               /\ client_rx' = Tail(client_rx)
               /\ last' = [op |-> "drive", ev |-> entry.ev, origin |-> entry.origin,
                           term |-> term, before |-> Unreads(app),
                           run |-> EventRun(entry.ev),
                           reply |-> hist.reply,
                           assistants |-> CountRole(app.messages, "Assistant")]
               /\ hist' = [reply |-> NextReply(hist.reply, entry, app.messages, out.app.messages),
                           errs |-> (IF entry.origin.first THEN 0 ELSE hist.errs)
                                       + CountRole(out.app.messages, "Error")
                                       - CountRole(app.messages, "Error"),
                           silence |-> 0,
                           waited |-> hist.waited,
                           sends |-> hist.sends]
    /\ UNCHANGED <<active_session, budget>>

Drive == DriveOn(Roomy)

\* The user submits a chat line; handle_submit calls send_chat once
\* (app.rs 216), which ends with outcome `sent`.
SubmitOn(line, sent, term) ==
    /\ budget.lines < MaxLines
    /\ \E out \in handle_submit(line, app, pending_run_ids, sent) :
           /\ app' = drawn(out.app, term)
           /\ pending_run_ids' = out.pending
    /\ last' = [op |-> "submit", line |-> line, sent |-> sent,
                term |-> term, before |-> Unreads(app),
                tracked |-> Tracked]
    /\ hist' = [hist EXCEPT !.reply = NoReply, !.silence = 0, !.waited = 0,
                            !.sends = @ + 1]
    /\ budget' = [budget EXCEPT !.lines = @ + 1]
    /\ UNCHANGED <<active_session, client_rx>>

Submit(line, sent) == SubmitOn(line, sent, Roomy)

\* The user enters /clear.
Clear ==
    /\ budget.commands < MaxCommands
    /\ app' = drawn(exec_clear(app), Roomy)
    /\ pending_run_ids' = EmptyMap
    /\ last' = [op |-> "clear", tracked |-> Tracked]
    /\ hist' = [hist EXCEPT !.reply = NoReply]
    /\ budget' = [budget EXCEPT !.commands = @ + 1]
    /\ UNCHANGED <<active_session, client_rx>>

\* The user enters /agent <target>; session.preview ends with `preview`.
SwitchAgent(target, preview) ==
    /\ budget.commands < MaxCommands
    /\ app' = drawn(exec_agent(app, target, preview), Roomy)
    /\ pending_run_ids' = EmptyMap
    /\ active_session' = normalize_session_key_for_match(build_agent_session_key(Trim(target)))
    /\ last' = [op |-> "agent", tracked |-> Tracked]
    /\ hist' = [hist EXCEPT !.reply = NoReply]
    /\ budget' = [budget EXCEPT !.commands = @ + 1]
    /\ UNCHANGED client_rx

\* The interval timer fires while the client waits, `elapsed` seconds after
\* the driver last looked at the clock (app.rs 135-141).
Tick(elapsed) ==
    LET aged == [app EXCEPT !.waiting_started =
                     IF IsSome(@) THEN Some(Unwrap(@) + elapsed) ELSE @]
        fired == timeout_fires(aged)
    IN  /\ app.waiting
        /\ app' = drawn(timeout_if_needed(aged), Roomy)
        /\ pending_run_ids' = IF fired THEN EmptyMap ELSE pending_run_ids
        /\ last' = [op |-> "tick", fired |-> fired,
                    silence |-> hist.silence + elapsed,
                    waited |-> hist.waited + elapsed,
                    tracked |-> Tracked]
        /\ hist' = [hist EXCEPT !.reply = IF fired THEN NoReply ELSE @,
                                !.silence = @ + elapsed,
                                !.waited = @ + elapsed]
        /\ UNCHANGED <<active_session, client_rx, budget>>

\* The transport thread runs connect_ws's closure on a system frame
\* (app.rs 524-530).
SystemCallback(payload) ==
    /\ budget.frames < MaxSystemFrames
    /\ Len(client_rx) < MaxQueue
    /\ client_rx' = Append(client_rx,
                           [ev |-> SystemEvent(payload),
                            origin |-> [cls |-> "System", has_text |-> FALSE,
                                        first |-> TRUE, fin |-> TRUE]])
    /\ budget' = [budget EXCEPT !.frames = @ + 1]
    /\ last' = [op |-> "system", accepted |-> TRUE, sent |-> 1]
    /\ UNCHANGED <<app, active_session, pending_run_ids, hist>>

\* The user presses a key that switches or scrolls the active buffer; the
\* loop then draws on terminal `term` (app.rs 156-192).
KeyPress(key, term) ==
    /\ budget.keys < MaxKeys
    /\ app' = drawn(handle_key(app, key), term)
    /\ last' = [op |-> "key", key |-> key, term |-> term, before |-> Unreads(app)]
    /\ budget' = [budget EXCEPT !.keys = @ + 1]
    /\ UNCHANGED <<active_session, pending_run_ids, client_rx, hist>>

Next ==
    \/ \E r \in RawRunIds, k \in RawSessionKeys : Callback(r, k)
    \/ \E frame \in OtherFrames : CallbackIgnore(frame)
    \/ Drive
    \/ \E line \in ChatLines, sent \in SendOutcomes : Submit(line, sent)
    \/ Clear
    \/ \E target \in AgentTargets, preview \in Previews : SwitchAgent(target, preview)
    \/ Tick(TimeStep)

Spec == Init /\ [][Next]_vars

\* a streamed conversation: deltas and finals of one run, the failure of
\* another, and the user submitting a line meanwhile
NextStream ==
    \/ \E payload \in StreamFrames : StreamCallback(payload)
    \/ Drive
    \/ \E line \in StreamLines, sent \in StreamSends : Submit(line, sent)

\* the client started in the session the frames are tagged for
InitStream == InitFrom({K_a_main})

SpecStream == InitStream /\ [][NextStream]_vars

\* The event loop's select! (app.rs 132-190) polls an interval timer of
\* TICK_MS milliseconds and the channel of chat events: a tick that stays due
\* and an event that stays queued are eventually taken.
SpecFair == Spec /\ WF_vars(Tick(TimeStep)) /\ WF_vars(Drive)

\* the buffers: system frames arriving, the user switching and scrolling
\* buffers and submitting a line, each iteration of the loop drawing on a
\* small terminal
NextBuffers ==
    \/ \E payload \in SystemPayloads : SystemCallback(payload)
    \/ \E term \in Terminals : DriveOn(term)
    \/ \E key \in Keys, term \in Terminals : KeyPress(key, term)
    \/ \E line \in StreamLines, sent \in StreamSends, term \in Terminals :
           SubmitOn(line, sent, term)

SpecBuffers == InitStream /\ [][NextBuffers]_vars

\* ------------------------------------------------------------------- claims
\* the driver has just processed the event `last` describes
Drove(cls) == last.op = "drive" /\ last.origin.cls = cls

\* the run id an acknowledgement of chat.send carries
AckRun(sent) == Trim(Unwrap(sent.payload.runId))

\* the chat.send just submitted was acknowledged with `status` and a run id
Acked(status) ==
    /\ last.op = "submit"
    /\ last.sent.ok
    /\ last.sent.payload.status = Some(status)
    /\ IsSome(last.sent.payload.runId)
    /\ AckRun(last.sent) # <<>>

\* C1, as stated: a chat frame whose explicit sessionKey normalizes to another
\* key than the active session's enqueues nothing and changes no part of
\* AppState.
C1_MismatchDropped ==
    [][(last'.op = "frame" /\ last'.explicit = "mismatch")
          => (client_rx' = client_rx /\ app' = app)]_vars

\* C1, amended: a chat frame whose explicit sessionKey normalizes to another
\* key than the active session's, and whose run id the pending run-id map
\* does not map to the active session, enqueues nothing and changes no part
\* of AppState.
C1_MismatchUnmappedDropped ==
    [][(/\ last'.op = "frame"
        /\ last'.explicit = "mismatch"
        /\ last'.mapped # Some(active_session))
          => (client_rx' = client_rx /\ app' = app /\ ~last'.accepted)]_vars

\* a frame tagged for another session is dropped while a run is registered
C1_Witness ==
    /\ last.op = "frame"
    /\ last.explicit = "mismatch"
    /\ last.mapped # Some(active_session)
    /\ ~last.accepted
    /\ pending_run_ids # EmptyMap

\* C2: when the driver has processed one or more Streaming chunks with text
\* for run r and then the Final of r with non-empty text T, the reply is one
\* Assistant line, its text is exactly T, and no Assistant line was added.
C2_FinalReplacesChunks ==
    (/\ Drove("Final")
     /\ last.ev.type = "AssistantFinal"
     /\ last.ev.text # ""
     /\ last.reply.run = Some(last.run)
     /\ last.reply.lines # {})
        => /\ Cardinality(last.reply.lines) = 1
           /\ \A i \in last.reply.lines :
                  /\ i <= Len(app.messages)
                  /\ app.messages[i] = [role |-> "Assistant", text |-> last.ev.text]
           /\ CountRole(app.messages, "Assistant") = last.assistants

\* chunks "Hel" then a final "lo": the line holds "lo"
C2_Witness ==
    /\ Drove("Final")
    /\ last.ev.type = "AssistantFinal"
    /\ last.ev.text = "lo"
    /\ last.reply.run = Some(last.run)
    /\ last.reply.text = "Hel"
    /\ \E i \in last.reply.lines : app.messages[i].text = "lo"

\* C3: when the driver has processed one or more Streaming chunks with text
\* for run r and then a Final of r with empty text, the streamed Assistant
\* line holds the text the chunks left and no Assistant line was added.
C3_EmptyFinalKeepsChunks ==
    (/\ Drove("Final")
     /\ last.ev.type = "AssistantFinal"
     /\ last.ev.text = ""
     /\ last.reply.run = Some(last.run)
     /\ last.reply.lines # {})
        => /\ Cardinality(last.reply.lines) = 1
           /\ \A i \in last.reply.lines :
                  /\ i <= Len(app.messages)
                  /\ app.messages[i] = [role |-> "Assistant", text |-> last.reply.text]
           /\ CountRole(app.messages, "Assistant") = last.assistants

\* two chunks "Hel" then an empty final: the line holds "HelHel"
C3_Witness ==
    /\ Drove("Final")
    /\ last.ev.type = "AssistantFinal"
    /\ last.ev.text = ""
    /\ last.reply.run = Some(last.run)
    /\ last.reply.text = "HelHel"
    /\ \E i \in last.reply.lines : app.messages[i].text = "HelHel"

\* C4: once the driver has processed every event of an accepted Final frame
\* that names run r, r is in neither the run-phase map nor the pending run-id map,
\* and if no run is in an active phase then waiting is false and the waiting
\* timer is cleared.
C4_FinalRetiresRun ==
    (Drove("Final") /\ last.origin.fin /\ last.run # RUN_DEFAULT_ID)
        => /\ last.run \notin DOMAIN app.run_phases
           /\ last.run \notin DOMAIN pending_run_ids
           /\ no_active_run(app) => (~app.waiting /\ app.waiting_started = None)

\* C5: once the driver has processed every event of an accepted Error frame
\* that names run r, r is in neither the run-phase map nor the pending run-id map.
C5_ErrorRetiresRun ==
    (Drove("Error") /\ last.origin.fin /\ last.run # RUN_DEFAULT_ID)
        => /\ last.run \notin DOMAIN app.run_phases
           /\ last.run \notin DOMAIN pending_run_ids

\* C6: the events of an accepted Error frame append exactly one Error line
\* to the transcript.
C6_OneErrorLine ==
    (Drove("Error") /\ last.origin.fin) => hist.errs = 1

\* C7: once the driver has processed the RunState event of an accepted
\* Queued, Started or Streaming frame for run r, the run-phase map holds
\* r -> Queued, Running or Streaming, waiting is true and the timer is set.
C7_ActivePhaseSet ==
    (/\ last.op = "drive"
     /\ last.ev.type = "RunState"
     /\ last.origin.cls \in {"Queued", "Started", "Streaming"})
        => /\ last.run \in DOMAIN app.run_phases
           /\ app.run_phases[last.run] =
                  (CASE last.origin.cls = "Queued" -> "Queued"
                     [] last.origin.cls = "Started" -> "Running"
                     [] last.origin.cls = "Streaming" -> "Streaming")
           /\ app.waiting
           /\ IsSome(app.waiting_started)

\* a Started frame for a run the client was not waiting for
C7_Witness ==
    /\ last.op = "drive"
    /\ last.ev.type = "RunState"
    /\ last.origin.cls = "Started"
    /\ last.run = R_r2
    /\ app.run_phases[R_r2] = "Running"
    /\ app.waiting_started = Some(0)

\* C8: when chat.send is acknowledged with status started (queued) and run
\* id r, then after handle_submit the run-phase map holds r -> Running
\* (Queued), waiting is true, and the pending run-id map holds r with the
\* session key of the session the client is in.
C8_AckRegistersRun ==
    (Acked(S_started) \/ Acked(S_queued))
        => LET r == AckRun(last.sent)
           IN  /\ r \in DOMAIN app.run_phases
               /\ app.run_phases[r] = (IF Acked(S_started) THEN "Running" ELSE "Queued")
               /\ app.waiting
               /\ r \in DOMAIN pending_run_ids
               /\ pending_run_ids[r] = app.session_key
               /\ normalize_session_key_for_match(pending_run_ids[r]) = active_session

\* an acknowledgement "queued" whose run id comes padded with blanks
C8_Witness ==
    /\ Acked(S_queued)
    /\ R_r2 \in DOMAIN pending_run_ids
    /\ app.run_phases = MapInsert(EmptyMap, R_r2, "Queued")

\* C9: the driver processing an event of an accepted frame whose status
\* classifies as Unknown leaves the run-phase map as it was.
C9_UnknownKeepsPhases ==
    [][(last'.op = "drive" /\ last'.origin.cls = "Unknown")
          => app'.run_phases = app.run_phases]_vars

\* C10: a chat frame without sessionKey whose run id the pending run-id map
\* holds passes the session filter.
C10_RegisteredRunAccepted ==
    (last.op = "frame" /\ last.explicit = "none" /\ IsSome(last.mapped))
        => last.accepted

\* ------------------------------------------------------------------------ C11
\* C11: a tick makes the timeout fire only while the client waits and only
\* when more than CONNECTION_TIMEOUT_SECS seconds have passed since the latest
\* of the last submit and the last event the driver processed; a tick that
\* comes no more than the timeout after that moment never fires, however long
\* ago the wait began.
C11_TimeoutMeasuresSilence ==
    [][ (last'.op = "tick") =>
            /\ last'.fired => (app.waiting /\ last'.silence > CONNECTION_TIMEOUT_SECS)
            /\ last'.silence <= CONNECTION_TIMEOUT_SECS => ~last'.fired ]_vars

\* a wait older than the timeout whose tick did not fire, an event having
\* been processed since the submit
C11_Witness ==
    /\ last.op = "tick" /\ ~last.fired
    /\ last.waited > CONNECTION_TIMEOUT_SECS
    /\ last.silence <= CONNECTION_TIMEOUT_SECS
    /\ app.waiting

\* ------------------------------------------------------------------------ C12
\* C12: the tick on which the silence timeout fires leaves the run-phase map,
\* the stream map and the pending run-id map empty, no active run id and
\* waiting false, and appends exactly one line, of role Error, to the
\* transcript; no tick fires the timeout while waiting is false.
C12_TimeoutClearsRuns ==
    [][ /\ (last'.op = "tick" /\ last'.fired) =>
              /\ app'.run_phases = EmptyMap
              /\ app'.streams = EmptyMap
              /\ pending_run_ids' = EmptyMap
              /\ app'.active_run_id = None
              /\ ~app'.waiting
              /\ Len(app'.messages) = Len(app.messages) + 1
              /\ SubSeq(app'.messages, 1, Len(app.messages)) = app.messages
              /\ app'.messages[Len(app'.messages)].role = "Error"
        /\ ~app.waiting => ~(last'.op = "tick" /\ last'.fired /\ last' # last) ]_vars

\* the timeout has fired while runs were tracked
C12_Witness ==
    /\ last.op = "tick" /\ last.fired
    /\ last.tracked.active # {} /\ last.tracked.pending # {}
    /\ ~app.waiting /\ app.run_phases = EmptyMap

\* ------------------------------------------------------------------------ C13
\* the run ids the inputs can name
TrackedRunIds == {RUN_DEFAULT_ID, R_r1, R_r2}

ActiveRun(r) == r \in DOMAIN app.run_phases /\ is_active(app.run_phases[r])

\* C13: under fair ticking, once the gateway is silent every run in an active
\* phase (Queued, Running, Streaming) is eventually removed from the run-phase
\* map, whatever was processed before the silence began.
C13_ActiveRunsRetired ==
    \A r \in TrackedRunIds : ActiveRun(r) ~> (r \notin DOMAIN app.run_phases)

\* ------------------------------------------------------------------------ C14
\* C14: when chat.send fails at transport level, handle_submit leaves the
\* run-phase map, the stream map and the pending run-id map empty and waiting
\* false, the transcript grown by the user's line followed by exactly one
\* Error line, and the line sent once; no other step of the client sends.
C14_SendFailureClearsRuns ==
    [][ /\ (last'.op = "submit" /\ ~last'.sent.ok /\ budget' # budget) =>
              /\ app'.run_phases = EmptyMap
              /\ app'.streams = EmptyMap
              /\ pending_run_ids' = EmptyMap
              /\ ~app'.waiting
              /\ Len(app'.messages) = Len(app.messages) + 2
              /\ SubSeq(app'.messages, 1, Len(app.messages)) = app.messages
              /\ app'.messages[Len(app.messages) + 1]
                     = [role |-> "User", text |-> last'.line]
              /\ app'.messages[Len(app.messages) + 2].role = "Error"
              /\ hist'.sends = hist.sends + 1
        /\ budget'.lines = budget.lines => hist'.sends = hist.sends ]_vars

\* a send has failed while runs were tracked
C14_Witness ==
    /\ last.op = "submit" /\ ~last.sent.ok
    /\ last.tracked.active # {} /\ last.tracked.streams # {}
    /\ app.run_phases = EmptyMap /\ hist.sends = 1

\* ------------------------------------------------------------------------ C15
\* C15: /clear, in whatever state it is entered, leaves the run-phase map, the
\* stream map and the pending run-id map empty, no active run id and waiting
\* false by its own step, no event being taken off the channel for it.
C15_ClearResetsRuns ==
    [][ (last'.op = "clear" /\ budget' # budget) =>
            /\ app'.run_phases = EmptyMap
            /\ app'.streams = EmptyMap
            /\ pending_run_ids' = EmptyMap
            /\ app'.active_run_id = None
            /\ ~app'.waiting
            /\ client_rx' = client_rx ]_vars

\* /clear has been entered while a run was active and a run awaited its
\* first event
C15_Witness ==
    /\ last.op = "clear"
    /\ last.tracked.active # {} /\ last.tracked.pending # {}
    /\ app.run_phases = EmptyMap /\ ~app.waiting

\* ------------------------------------------------------------------------ C16
\* C16: /clear and a session switch leave the run-phase map and the stream map
\* empty and the input history, entries and order, as it was.
C16_HistorySurvivesReset ==
    [][ (last'.op \in {"clear", "agent"} /\ budget' # budget) =>
            /\ app'.run_phases = EmptyMap
            /\ app'.streams = EmptyMap
            /\ app'.input_history = app.input_history ]_vars

\* a session switch after a line was submitted and while a run was active
C16_Witness ==
    /\ last.op = "agent"
    /\ app.input_history # <<>>
    /\ last.tracked.active # {}
    /\ app.run_phases = EmptyMap

\* ------------------------------------------------------------------------ C17
\* C17: a line the gateway acknowledges as a directive changes no in-flight
\* run's local state: every run keeps its phase and its stream line, and
\* waiting stays as it was while a run is active.
C17_DirectiveKeepsRuns ==
    [][ ( /\ last'.op = "submit" /\ budget' # budget
          /\ last'.sent.ok
          /\ parse_send_result(last'.sent.payload).directive ) =>
            /\ \A r \in DOMAIN app.run_phases :
                   r \in DOMAIN app'.run_phases
                       /\ app'.run_phases[r] = app.run_phases[r]
            /\ \A r \in DOMAIN app.streams :
                   r \in DOMAIN app'.streams /\ app'.streams[r] = app.streams[r]
            /\ (\E r \in DOMAIN app.run_phases : is_active(app.run_phases[r]))
                   => app'.waiting = app.waiting ]_vars

\* ------------------------------------------------------------------------ C18
\* n lines were appended to buffer b in this step
Appended(b, n) ==
    /\ Len(lines_of(app', b)) = Len(lines_of(app, b)) + n
    /\ SubSeq(lines_of(app', b), 1, Len(lines_of(app, b))) = lines_of(app, b)

\* C18: for each of the three buffers, a step that appends n lines to it
\* raises its unread count by n when it is not the active buffer and leaves
\* the count as it was when it is.
C18_PushCountsUnread ==
    [][ \A b \in BufferIds : \A n \in 1..3 :
            Appended(b, n) =>
                unread(app', b) = unread(app, b)
                                      + (IF app.active_buffer = b THEN 0 ELSE n) ]_vars

\* ------------------------------------------------------------------------ C19
\* the buffer a key switches to
SwitchTarget(key) ==
    CASE key = "Alt+1" -> "Chat" [] key = "Alt+2" -> "System" [] key = "Alt+3" -> "Logs"

\* C19: switching to a buffer makes it the active buffer and sets its unread
\* count to 0; the lines of every buffer and the unread count of every other
\* buffer stay as they were.
C19_SwitchMarksRead ==
    [][ (last'.op = "key" /\ budget' # budget
             /\ last'.key \in {"Alt+1", "Alt+2", "Alt+3"}) =>
            LET target == SwitchTarget(last'.key)
            IN  /\ app'.active_buffer = target
                /\ unread(app', target) = 0
                /\ \A b \in BufferIds :
                       /\ lines_of(app', b) = lines_of(app, b)
                       /\ b # target => unread(app', b) = unread(app, b) ]_vars

\* the user has switched to the system buffer, which held unread lines
C19_Witness ==
    /\ last.op = "key" /\ last.key = "Alt+2"
    /\ last.before.active = "Chat"
    /\ last.before.unread["System"] = 2
    /\ app.active_buffer = "System"
    /\ app.system_buffer.unread = 0
    /\ Len(app.system_buffer.messages) = 2

\* ------------------------------------------------------------------------ C20
\* the auto-follow flag of a buffer
auto_follow_of(a, buf_id) ==
    CASE buf_id = "Chat" -> a.chat_auto_follow
      [] buf_id = "System" -> a.system_buffer.auto_follow
      [] buf_id = "Logs" -> a.logs_buffer.auto_follow

\* C20: after a draw whose clamped scroll offset of the buffer drawn equals
\* the maximum offset max(0, rows - viewport rows), that buffer's auto-follow
\* flag is true, however the user reached the bottom.
C20_BottomFollows ==
    last.op \in {"key", "drive", "submit"} =>
        ( clamped_scroll(app, last.term.line_count, last.term.content_height)
              = saturating_sub(last.term.line_count, last.term.content_height)
          => auto_follow_of(app, app.active_buffer) )

\* ======================================================== pure functions
\* str::to_uppercase on the ASCII letters, to write the inputs in other cases
UpperChar(c) ==
    IF \E i \in 1..26 : LowerChars[i] = c
    THEN UpperChars[CHOOSE i \in 1..26 : LowerChars[i] = c] ELSE c
ToUpper(s) == [i \in 1..Len(s) |-> UpperChar(s[i])]
Capitalized(s) == [i \in 1..Len(s) |-> IF i = 1 THEN UpperChar(s[i]) ELSE s[i]]

\* a word as a sender may write it: in lower, upper or capitalized case
Cased(w) == {w, ToUpper(w), Capitalized(w)}

\* ... and with whitespace around it
Padded(w) == {w, <<" ">> \o w, w \o <<" ">>, <<"\t">> \o w \o <<" ", "\n">>}

\* the status synonyms of from_raw (events.rs 46-51), and strings that are
\* none of them: another word, a synonym cut short, one with a space inside
S_queue == <<"q", "u", "e", "u", "e">>
S_do_ne == <<"d", "o", " ", "n", "e">>
StatusWords ==
    {S_queued, S_pending, S_started, S_running, S_in_progress, S_delta, S_partial,
     S_streaming, S_final, S_done, S_complete, S_completed, S_finished, S_finalized,
     S_complete_success, S_error, S_failed, S_aborted, S_cancelled, S_timeout}
OtherWords == {<<>>, S_bogus, S_queue, S_do_ne, S_command}

\* from_raw is applied to a payload's state: absent, or word `word` written
\* as `raw`
Classify(word, raw) ==
    /\ last.op = "init"
    /\ last' = [op |-> "from_raw", word |-> word, raw |-> raw, out |-> from_raw(raw)]
    /\ UNCHANGED <<app, active_session, pending_run_ids, client_rx, hist, budget>>

NextClassify ==
    \/ Classify(<<>>, None)
    \/ \E word \in StatusWords \cup OtherWords :
           \E c \in Cased(word) : \E raw \in Padded(c) : Classify(word, Some(raw))

SpecClassify == InitStream /\ [][NextClassify]_vars

\* ------------------------------------------------------------------------ C21
\* the class the contract documents for a status word in lower case
DocumentedClass(word) ==
    CASE word \in {<<"q","u","e","u","e","d">>, <<"p","e","n","d","i","n","g">>} -> "Queued"
      [] word \in {<<"s","t","a","r","t","e","d">>, <<"r","u","n","n","i","n","g">>,
                   <<"i","n","_","p","r","o","g","r","e","s","s">>} -> "Started"
      [] word \in {<<"d","e","l","t","a">>, <<"p","a","r","t","i","a","l">>,
                   <<"s","t","r","e","a","m","i","n","g">>} -> "Streaming"
      [] word \in {<<"f","i","n","a","l">>, <<"d","o","n","e">>,
                   <<"c","o","m","p","l","e","t","e">>,
                   <<"c","o","m","p","l","e","t","e","d">>,
                   <<"f","i","n","i","s","h","e","d">>,
                   <<"f","i","n","a","l","i","z","e","d">>,
                   <<"c","o","m","p","l","e","t","e","_","s","u","c","c","e","s","s">>}
             -> "Final"
      [] word \in {<<"e","r","r","o","r">>, <<"f","a","i","l","e","d">>,
                   <<"a","b","o","r","t","e","d">>,
                   <<"c","a","n","c","e","l","l","e","d">>,
                   <<"t","i","m","e","o","u","t">>} -> "Error"
      [] OTHER -> "Unknown"

\* C21: from_raw returns the documented class of the word its input holds,
\* whatever the letter case and the whitespace around it: Queued, Started,
\* Streaming, Final or Error for the synonyms, Unknown for a missing, an
\* empty and any other string.
C21_ClassifySynonyms ==
    last.op = "from_raw" => last.out = DocumentedClass(last.word)

\* " DONE " in upper case and padded has been classified Final
C21_Witness ==
    /\ last.op = "from_raw"
    /\ last.raw = Some(<<"\t", "D", "O", "N", "E", " ", "\n">>)
    /\ last.out = "Final"

\* ------------------------------------------------------ session key inputs
\* the segments session keys are written with, and the longest key in segments
S_agent == <<"a", "g", "e", "n", "t">>
S_bob == <<"b", "o", "b">>
Segments == {S_agent, S_bob, S_cli, S_dm, S_main}
MaxSegments == 5

\* every key of up to MaxSegments segments joined by colons, and the empty key
SessionKeys ==
    {<<>>} \cup
    UNION {{JoinColon(segs) : segs \in [1..n -> Segments]} : n \in 1..MaxSegments}

\* a key as a sender may spell it: as is, in upper case, capitalized and padded
Spellings(key) ==
    {key, ToUpper(key), <<" ">> \o key \o <<"\n">>,
     <<"\t", " ">> \o Capitalized(key) \o <<" ">>}

\* normalize_session_key_for_match is applied to key `key` spelled `raw`, and
\* then to its own result
Normalize(key, raw) ==
    /\ last.op = "init"
    /\ last' = [op |-> "normalize", key |-> key, raw |-> raw,
                out |-> normalize_session_key_for_match(raw),
                again |-> normalize_session_key_for_match(
                              normalize_session_key_for_match(raw)),
                plain |-> normalize_session_key_for_match(key)]
    /\ UNCHANGED <<app, active_session, pending_run_ids, client_rx, hist, budget>>

NextNormalize ==
    \E key \in SessionKeys : \E raw \in Spellings(key) : Normalize(key, raw)

SpecNormalize == InitStream /\ [][NextNormalize]_vars

\* ------------------------------------------------------------------------ C22
\* C22: normalizing a session key twice gives what normalizing it once gives,
\* and every spelling of a key that differs from it only in letter case or in
\* surrounding whitespace normalizes to what the key itself normalizes to.
C22_NormalizeIdempotent ==
    last.op = "normalize" =>
        /\ last.again = last.out
        /\ last.out = last.plain

\* "AGENT:BOB:CLI" has been normalized to "agent:bob:main"
C22_Witness ==
    /\ last.op = "normalize"
    /\ last.raw = ToUpper(JoinColon(<<S_agent, S_bob, S_cli>>))
    /\ last.raw # last.key
    /\ last.out = JoinColon(<<S_agent, S_bob, S_main>>)

\* ------------------------------------------------------------------------ C23
\* a key written agent:<agent_id>[:cli[:dm]][:<suffix>]: "agent", a non-empty
\* agent id, and whatever follows
HasKeyForm(key) ==
    LET parts == SplitColon(key)
    IN  Len(parts) >= 2 /\ parts[1] = S_agent /\ parts[2] # <<>>

\* agent:<id>:main or agent:<id>:dm:<suffix>
IsCanonical(key) ==
    LET parts == SplitColon(key)
    IN  /\ Len(parts) >= 3
        /\ parts[1] = S_agent
        /\ parts[2] # <<>>
        /\ \/ Len(parts) = 3 /\ parts[3] = S_main
           \/ Len(parts) >= 4 /\ parts[3] = S_dm /\ parts[4] # <<>>

\* C23: the key main normalizes to agent:main:main, and every key of the form
\* agent:<agent_id>[:cli[:dm]][:<suffix>] normalizes to a key in canonical
\* form, agent:<id>:main or agent:<id>:dm:<suffix>.
C23_NormalizeCanonical ==
    last.op = "normalize" =>
        /\ last.key = S_main => last.out = S_agent_main_main
        /\ HasKeyForm(last.key) => IsCanonical(last.out)


\* ------------------------------------------------- binary transfer frames
\* (protocol.rs)  A u8 is a number in 0..255.  A u32 is written as its two
\* 16-bit halves, [hi, lo], of value hi * 65536 + lo, so that every 32-bit
\* value, the highest bit included, has a representation.
TRANSFER_BINARY_TAG_BYTES == 4

\* u32::to_be_bytes, the other byte order
to_be_bytes(n) ==
    <<n.hi \div 256, n.hi % 256, n.lo \div 256, n.lo % 256>>

\* u32::to_le_bytes
to_le_bytes(n) ==
    <<n.lo % 256, n.lo \div 256, n.hi % 256, n.hi \div 256>>

\* u32::from_le_bytes
from_le_bytes(b) ==
    [hi |-> (b[3] + 256 * b[4]) % 65536, lo |-> (b[1] + 256 * b[2]) % 65536]

\* build_transfer_binary_frame
build_transfer_binary_frame(transfer_id, data) ==
    to_le_bytes(transfer_id) \o data

\* parse_transfer_binary_frame
parse_transfer_binary_frame(data) ==
    IF Len(data) < TRANSFER_BINARY_TAG_BYTES THEN None
    ELSE Some(<<from_le_bytes(SubSeq(data, 1, 4)), SubSeq(data, 5, Len(data))>>)

\* the inputs: halves of transfer ids at the edges of their bytes, a few byte
\* values, payloads of up to MaxData bytes, raw frames of up to MaxFrameLen
Halves == {0, 1, 42, 255, 256, 65535}
TransferIds == [hi : Halves, lo : Halves]
Bytes == {0, 1, 2, 3, 255}
MaxData == 3
MaxFrameLen == 5
ByteSeqs(n) == UNION {[1..k -> Bytes] : k \in 0..n}

\* a frame is built from (transfer_id, data) and parsed back
BuildParse(transfer_id, data) ==
    /\ last.op = "init"
    /\ last' = [op |-> "transfer", id |-> transfer_id, data |-> data,
                frame |-> build_transfer_binary_frame(transfer_id, data),
                parsed |-> parse_transfer_binary_frame(
                               build_transfer_binary_frame(transfer_id, data))]
    /\ UNCHANGED <<app, active_session, pending_run_ids, client_rx, hist, budget>>

\* any received binary message is parsed
ParseBytes(data) ==
    /\ last.op = "init"
    /\ last' = [op |-> "parse", data |-> data,
                parsed |-> parse_transfer_binary_frame(data)]
    /\ UNCHANGED <<app, active_session, pending_run_ids, client_rx, hist, budget>>

NextTransfer ==
    \/ \E transfer_id \in TransferIds : \E data \in ByteSeqs(MaxData) :
           BuildParse(transfer_id, data)
    \/ \E data \in ByteSeqs(MaxFrameLen) : ParseBytes(data)

SpecTransfer == InitStream /\ [][NextTransfer]_vars

\* ------------------------------------------------------------------------ C24
\* C24: parsing the frame built from a transfer id and a byte sequence gives
\* that id and that byte sequence back; the frame's first four bytes are the
\* id's bytes, lowest first; and parsing gives None exactly for inputs
\* shorter than four bytes.
C24_TransferRoundTrip ==
    /\ last.op = "transfer" =>
           /\ last.parsed = Some(<<last.id, last.data>>)
           /\ Len(last.frame) = 4 + Len(last.data)
           /\ \A i \in 1..4 : last.frame[i] \in 0..255
           /\ last.frame[1] + 256 * last.frame[2] = last.id.lo
           /\ last.frame[3] + 256 * last.frame[4] = last.id.hi
    /\ last.op = "parse" => (last.parsed = None <=> Len(last.data) < 4)

\* transfer id 42 with the bytes 1, 2, 3 has made the round trip
C24_Witness ==
    /\ last.op = "transfer"
    /\ last.id = [hi |-> 0, lo |-> 42]
    /\ last.data = <<1, 2, 3>>
    /\ last.frame = <<42, 0, 0, 0, 1, 2, 3>>
    /\ last.parsed = Some(<<[hi |-> 0, lo |-> 42], <<1, 2, 3>>>>)

\* ------------------------------------------------------- message contents
\* the blocks a content array is drawn from: text blocks with a text, with an
\* empty text and with none, toolCall blocks with and without a name and
\* arguments, a block of another type and one without a type
ContentBlocks ==
    { TextBlock("lo"), TextBlock("Hel"), TextBlock(""),
      [type |-> Some("text"), text |-> None, name |-> None, arguments |-> None],
      ToolCallBlock("bash", Some([kind |-> "string", str |-> "ls"])),
      ToolCallBlock("read", None),
      [type |-> Some("toolCall"), text |-> None, name |-> None, arguments |-> None],
      [type |-> Some("image"), text |-> Some("pic"), name |-> Some("img"),
       arguments |-> None],
      [type |-> None, text |-> Some("bare"), name |-> None, arguments |-> None] }
MaxBlocks == 2

\* message.content: absent, a string (also the empty one), an array of up to
\* MaxBlocks blocks, or another JSON value (null)
Contents ==
    {None, Some(StringContent("Hel")), Some(StringContent("")),
     Some([kind |-> "other", str |-> "null", arr |-> <<>>])}
    \cup {Some(ArrayContent(blocks)) :
              blocks \in UNION {[1..n -> ContentBlocks] : n \in 0..MaxBlocks}}

\* payload.message: absent, or an object with content and text present or not
Messages ==
    {None} \cup {Some([content |-> c, text |-> t]) :
                     c \in Contents, t \in {None, Some("mt")}}

\* extract_content_from_payload is applied to a payload
Extract(message, text) ==
    /\ last.op = "init"
    /\ last' = [op |-> "extract", message |-> message, text |-> text,
                out |-> extract_content_from_payload(
                            [message |-> message, text |-> text, error |-> None])]
    /\ UNCHANGED <<app, active_session, pending_run_ids, client_rx, hist, budget>>

NextExtract ==
    \E message \in Messages : \E text \in {None, Some("pt")} : Extract(message, text)

SpecExtract == InitStream /\ [][NextExtract]_vars

\* ------------------------------------------------------------------------ C25
\* what the contract gives for a block array: the non-empty texts of its text
\* blocks joined by newline, and the names of its named toolCall blocks
ArrayTexts(arr) ==
    SelectSeq(arr, LAMBDA b : b.type = Some("text") /\ b.text \notin {None, Some("")})
ArrayCalls(arr) ==
    SelectSeq(arr, LAMBDA b : b.type = Some("toolCall") /\ b.name # None)

\* C25: the content comes from payload.message.content when that is present,
\* whatever else the payload holds (a string as it is; a block array as the
\* newline-joined non-empty text blocks and one tool call per named toolCall
\* block, in order); else from payload.message.text; else from payload.text;
\* else there is no text and no tool call.
C25_ContentResolutionOrder ==
    last.op = "extract" =>
        LET m == last.message
            content == IF m = None THEN None ELSE Unwrap(m).content
            c == Unwrap(content)
        IN  IF content # None
            THEN /\ c.kind = "string" => last.out = [text |-> Some(c.str), tool_calls |-> <<>>]
                 /\ c.kind = "array" =>
                        /\ last.out.text =
                               IF ArrayTexts(c.arr) = <<>> THEN None
                               ELSE Some(JoinNewline([i \in 1..Len(ArrayTexts(c.arr)) |->
                                                         Unwrap(ArrayTexts(c.arr)[i].text)]))
                        /\ Len(last.out.tool_calls) = Len(ArrayCalls(c.arr))
                        /\ \A i \in 1..Len(ArrayCalls(c.arr)) :
                               last.out.tool_calls[i].name = Unwrap(ArrayCalls(c.arr)[i].name)
                 /\ last.out = extract_content_from_payload(
                                   [message |-> Some([content |-> content, text |-> None]),
                                    text |-> None, error |-> None])
            ELSE IF m # None /\ Unwrap(m).text # None
            THEN last.out = [text |-> Unwrap(m).text, tool_calls |-> <<>>]
            ELSE IF last.text # None
            THEN last.out = [text |-> last.text, tool_calls |-> <<>>]
            ELSE last.out = [text |-> None, tool_calls |-> <<>>]

\* a content array of a text block and a toolCall block has decided the
\* result although message.text and payload.text were present
C25_Witness ==
    /\ last.op = "extract"
    /\ last.text = Some("pt")
    /\ last.message = Some([content |-> Some(ArrayContent(
                                <<TextBlock("lo"),
                                  ToolCallBlock("bash", Some([kind |-> "string", str |-> "ls"]))>>)),
                            text |-> Some("mt")])
    /\ last.out = [text |-> Some("lo"),
                   tool_calls |-> <<[name |-> "bash", arguments |-> Some("ls")]>>]

\* ============================================================ markdown.rs
\* A text is a sequence of characters.  The backquote is the character
\* "backtick"; the glyphs the renderer adds (a bullet, a horizontal and a
\* vertical line) are the characters "bullet", "hline" and "vbar", of three
\* bytes each in UTF-8.  A Style is the theme style it starts from and the
\* modifiers added to it.
Utf8Bytes(c) == IF c \in {"bullet", "hline", "vbar"} THEN 3 ELSE 1
RECURSIVE Utf8Len(_)
Utf8Len(s) == IF s = <<>> THEN 0 ELSE Utf8Bytes(Head(s)) + Utf8Len(Tail(s))
Repeat(c, n) == [i \in 1..n |-> c]
DropFirst(s, n) == SubSeq(s, n + 1, Len(s))

\* str::split(sep), collected
RECURSIVE SplitOnFrom(_, _, _, _)
SplitOnFrom(s, sep, i, part) ==
    IF i > Len(s) THEN <<part>>
    ELSE IF s[i] = sep THEN <<part>> \o SplitOnFrom(s, sep, i + 1, <<>>)
    ELSE SplitOnFrom(s, sep, i + 1, Append(part, s[i]))
SplitOn(s, sep) == SplitOnFrom(s, sep, 1, <<>>)

\* str::split_whitespace, collected
RECURSIVE split_whitespace_from(_, _, _)
split_whitespace_from(s, i, word) ==
    LET done == IF word = <<>> THEN <<>> ELSE <<word>>
    IN  IF i > Len(s) THEN done
        ELSE IF IsSpace(s[i]) THEN done \o split_whitespace_from(s, i + 1, <<>>)
        ELSE split_whitespace_from(s, i + 1, Append(word, s[i]))
split_whitespace(s) == split_whitespace_from(s, 1, <<>>)

\* SpanStyle, MdSpan, ratatui's Span and Style
SpanStyle_default == [bold |-> FALSE, italic |-> FALSE, code |-> FALSE, dim |-> FALSE]
MdSpan(text, style) == [text |-> text, style |-> style]
Style(theme) == [theme |-> theme, level |-> 0, bold |-> FALSE, italic |-> FALSE]
Span(content, style) == [content |-> content, style |-> style]

\* is_hrule
is_hrule(line) ==
    LET stripped == SelectSeq(line, LAMBDA c : ~IsSpace(c))
    IN  /\ Len(stripped) >= 3
        /\ \/ \A i \in 1..Len(stripped) : stripped[i] = "-"
           \/ \A i \in 1..Len(stripped) : stripped[i] = "*"
           \/ \A i \in 1..Len(stripped) : stripped[i] = "_"

\* count_run: the number of target characters from index from on
count_run(chars, target, from) ==
    LET others == {j \in from..Len(chars) : chars[j] # target}
    IN  IF others = {} THEN Len(chars) - from + 1
        ELSE (CHOOSE j \in others : \A k \in others : j <= k) - from

\* find_char: the first index from from on that holds target, 0 for None
find_char(chars, target, from) ==
    LET hits == {j \in from..Len(chars) : chars[j] = target}
    IN  IF hits = {} THEN 0 ELSE CHOOSE j \in hits : \A k \in hits : j <= k

\* parse_header
parse_header(line) ==
    LET level == count_run(line, "#", 1)
        rest == DropFirst(line, level)
    IN  IF level = 0 \/ level > 6 THEN None
        ELSE IF StartsWith(rest, <<" ">>)
        THEN Some([level |-> level, text |-> TrimEnd(DropFirst(rest, 1))])
        ELSE None

\* parse_list_item
IsDigit(c) == c \in {"0", "1", "2", "3", "4", "5", "6", "7", "8", "9"}
parse_list_item(line) ==
    LET leading == Len(line) - Len(TrimStart(line))
        pad == SubSeq(line, 1, leading)
        trimmed == DropFirst(line, leading)
        nondigits == {j \in 1..Len(trimmed) : ~IsDigit(trimmed[j])}
        num_end == IF nondigits = {} THEN Len(trimmed)
                   ELSE (CHOOSE j \in nondigits : \A k \in nondigits : j <= k) - 1
    IN  IF StartsWith(trimmed, <<"-", " ">>) \/ StartsWith(trimmed, <<"*", " ">>)
        THEN Some([prefix |-> pad \o <<"bullet", " ">>, body |-> DropFirst(trimmed, 2)])
        ELSE IF num_end > 0 /\ StartsWith(DropFirst(trimmed, num_end), <<".", " ">>)
        THEN Some([prefix |-> pad \o SubSeq(trimmed, 1, num_end) \o <<".", " ">>,
                   body |-> DropFirst(trimmed, num_end + 2)])
        ELSE None

\* flush: the spans after it (the callers clear buf)
flush(spans, buf, style) ==
    IF buf # <<>> THEN Append(spans, MdSpan(buf, style)) ELSE spans

\* try_parse_link, the loop looking for the closing parenthesis: <<url_end,
\* depth>> when it stops
RECURSIVE link_url_end(_, _, _)
link_url_end(chars, url_end, depth) ==
    IF url_end <= Len(chars) /\ depth > 0
    THEN LET d == IF chars[url_end] = "(" THEN depth + 1
                  ELSE IF chars[url_end] = ")" THEN depth - 1
                  ELSE depth
         IN  IF d > 0 THEN link_url_end(chars, url_end + 1, d) ELSE <<url_end, d>>
    ELSE <<url_end, depth>>

\* try_parse_link: start is the index of "["; end is the index after ")"
try_parse_link(chars, start) ==
    LET text_start == start + 1
        text_end == find_char(chars, "]", text_start)
        url_start == text_end + 2
        stop == link_url_end(chars, url_start, 1)
    IN  IF text_end = 0 THEN None
        ELSE IF text_end + 1 > Len(chars) THEN None
        ELSE IF chars[text_end + 1] # "(" THEN None
        ELSE IF stop[2] # 0 THEN None
        ELSE Some([text |-> SubSeq(chars, text_start, text_end - 1),
                   url |-> SubSeq(chars, url_start, stop[1] - 1),
                   end |-> stop[1] + 1])

\* parse_inline, the walk over the characters from index i on
RECURSIVE parse_inline_from(_, _, _, _, _)
parse_inline_from(chars, i, spans, buf, style) ==
    IF i > Len(chars)
    THEN LET done == flush(spans, buf, style)
         IN  IF done = <<>> THEN <<MdSpan(<<>>, SpanStyle_default)>> ELSE done
    ELSE LET ch == chars[i]
             flushed == flush(spans, buf, style)
             close == find_char(chars, "backtick", i + 1)
             run == count_run(chars, "*", i)
             link == try_parse_link(chars, i)
         IN  IF ch = "backtick"
             THEN IF close # 0
                  THEN parse_inline_from(chars, close + 1,
                           Append(flushed,
                                  MdSpan(SubSeq(chars, i + 1, close - 1),
                                         [SpanStyle_default EXCEPT !.code = TRUE])),
                           <<>>, style)
                  ELSE parse_inline_from(chars, i + 1, flushed, <<"backtick">>, style)
             ELSE IF ch = "*"
             THEN IF run >= 3
                  THEN parse_inline_from(chars, i + 3, flushed, <<>>,
                           [style EXCEPT !.bold = ~@, !.italic = ~@])
                  ELSE IF run = 2
                  THEN parse_inline_from(chars, i + 2, flushed, <<>>,
                           [style EXCEPT !.bold = ~@])
                  ELSE parse_inline_from(chars, i + 1, flushed, <<>>,
                           [style EXCEPT !.italic = ~@])
             ELSE IF ch = "[" /\ link # None
             THEN parse_inline_from(chars, Unwrap(link).end,
                      flushed \o <<MdSpan(Unwrap(link).text, style),
                                   MdSpan(<<" ", "(">> \o Unwrap(link).url \o <<")">>,
                                          [SpanStyle_default EXCEPT !.dim = TRUE])>>,
                      <<>>, style)
             ELSE parse_inline_from(chars, i + 1, spans, Append(buf, ch), style)

\* parse_inline
parse_inline(text) == parse_inline_from(text, 1, <<>>, <<>>, SpanStyle_default)

\* spans_to_words
RECURSIVE spans_to_words(_)
spans_to_words(spans) ==
    IF spans = <<>> THEN <<>>
    ELSE LET words == split_whitespace(Head(spans).text)
         IN  [i \in 1..Len(words) |-> [text |-> words[i], style |-> Head(spans).style]]
             \o spans_to_words(Tail(spans))

\* push_span
push_span(spans, text, style) ==
    IF spans # <<>> /\ spans[Len(spans)].style = style
    THEN [spans EXCEPT ![Len(spans)].text = @ \o text]
    ELSE Append(spans, MdSpan(text, style))

\* wrap_spans: the line with the separating space pushed when it has text
with_space(cur, cur_w, style) ==
    LET prev == IF cur = <<>> THEN SpanStyle_default ELSE cur[Len(cur)].style
    IN  IF cur_w > 0
        THEN push_span(cur, <<" ">>, IF prev = style THEN style ELSE SpanStyle_default)
        ELSE cur

\* wrap_spans, the loop that force-breaks a word wider than max_width
RECURSIVE force_break(_, _, _, _, _, _)
force_break(remaining, style, max_width, lines, cur, cur_w) ==
    LET avail == IF cur_w > 0 THEN saturating_sub(max_width, cur_w + 1) ELSE max_width
        take == Min(avail, Len(remaining))
        piece == push_span(with_space(cur, cur_w, style), SubSeq(remaining, 1, take), style)
        piece_w == (IF cur_w > 0 THEN cur_w + 1 ELSE cur_w) + take
        rest == DropFirst(remaining, take)
    IN  IF remaining = <<>> THEN [lines |-> lines, cur |-> cur, cur_w |-> cur_w]
        ELSE IF avail = 0
        THEN force_break(remaining, style, max_width, Append(lines, cur), <<>>, 0)
        ELSE IF rest # <<>>
        THEN force_break(rest, style, max_width, Append(lines, piece), <<>>, 0)
        ELSE force_break(rest, style, max_width, lines, piece, piece_w)

\* wrap_spans, the loop over the words and what follows it
RECURSIVE wrap_words(_, _, _, _, _)
wrap_words(words, max_width, lines, cur, cur_w) ==
    IF words = <<>>
    THEN LET pushed == IF cur # <<>> THEN Append(lines, cur) ELSE lines
         IN  IF pushed = <<>> THEN << <<>> >> ELSE pushed
    ELSE LET word == Head(words)
             wlen == Utf8Len(word.text)
             full == cur_w > 0 /\ cur_w + 1 + wlen > max_width
             lines1 == IF full THEN Append(lines, cur) ELSE lines
             cur1 == IF full THEN <<>> ELSE cur
             cur_w1 == IF full THEN 0 ELSE cur_w
             broken == force_break(word.text, word.style, max_width, lines1, cur1, cur_w1)
         IN  IF wlen > max_width
             THEN wrap_words(Tail(words), max_width, broken.lines, broken.cur, broken.cur_w)
             ELSE wrap_words(Tail(words), max_width, lines1,
                      push_span(with_space(cur1, cur_w1, word.style), word.text, word.style),
                      (IF cur_w1 > 0 THEN cur_w1 + 1 ELSE cur_w1) + wlen)

\* wrap_spans
wrap_spans(spans, max_width) ==
    IF max_width = 0 THEN <<spans>>
    ELSE IF spans_to_words(spans) = <<>> THEN << <<MdSpan(<<>>, SpanStyle_default)>> >>
    ELSE wrap_words(spans_to_words(spans), max_width, <<>>, <<>>, 0)

\* to_ratatui_span
to_ratatui_span(md, base) ==
    Span(md.text,
         IF md.style.code THEN Style("md_code")
         ELSE IF md.style.dim THEN Style("dim")
         ELSE [base EXCEPT !.bold = @ \/ md.style.bold, !.italic = @ \/ md.style.italic])

\* to_ratatui
to_ratatui(md_spans, base) ==
    [i \in 1..Len(md_spans) |-> to_ratatui_span(md_spans[i], base)]

\* a fence test that knows the backquote fence only
is_fence_backticks_only(line) ==
    StartsWith(Trim(line), <<"backtick", "backtick", "backtick">>)

\* render_markdown: is the line a code-block fence
is_fence(line) ==
    \/ StartsWith(Trim(line), <<"backtick", "backtick", "backtick">>)
    \/ StartsWith(Trim(line), <<"~", "~", "~">>)

\* render_markdown, the rows pushed for a source line outside a code block
render_source_line(line, max_width) ==
    LET trimmed == Trim(line)
        header == parse_header(trimmed)
        quote_body == IF StartsWith(trimmed, <<">", " ">>) THEN Some(DropFirst(trimmed, 2))
                      ELSE IF trimmed = <<">">> THEN Some(<<>>)
                      ELSE None
        item == parse_list_item(line)
        wrapped(body, width) == wrap_spans(parse_inline(body), width)
    IN  IF trimmed = <<>> THEN << <<>> >>
        ELSE IF is_hrule(trimmed)
        THEN << <<Span(Repeat("hline", Min(max_width, 40)), Style("dim"))>> >>
        ELSE IF header # None
        THEN LET w == wrapped(Unwrap(header).text, max_width)
             IN  [i \in 1..Len(w) |->
                     to_ratatui(w[i], [Style("md_heading") EXCEPT !.level = Unwrap(header).level])]
        ELSE IF quote_body # None
        THEN LET w == wrapped(Unwrap(quote_body), saturating_sub(max_width, 2))
             IN  [i \in 1..Len(w) |->
                     <<Span(<<"vbar", " ">>, Style("dim"))>>
                         \o to_ratatui(w[i], Style("md_blockquote"))]
        ELSE IF item # None
        THEN LET indent == Utf8Len(Unwrap(item).prefix)
                 w == wrapped(Unwrap(item).body, saturating_sub(max_width, indent))
             IN  [i \in 1..Len(w) |->
                     <<IF i = 1 THEN Span(Unwrap(item).prefix, Style("dim"))
                       ELSE Span(Repeat(" ", indent), Style("default"))>>
                         \o to_ratatui(w[i], Style("default"))]
        ELSE LET w == wrapped(line, max_width)
             IN  [i \in 1..Len(w) |-> to_ratatui(w[i], Style("default"))]

\* render_markdown, the loop over the source lines
RECURSIVE render_lines(_, _, _, _)
render_lines(source_lines, max_width, in_code_block, result) ==
    IF source_lines = <<>> THEN result
    ELSE LET line == Head(source_lines)
         IN  IF is_fence(line)
             THEN render_lines(Tail(source_lines), max_width, ~in_code_block, result)
             ELSE IF in_code_block
             THEN render_lines(Tail(source_lines), max_width, in_code_block,
                      Append(result, <<Span(line, Style("md_code"))>>))
             ELSE render_lines(Tail(source_lines), max_width, in_code_block,
                      result \o render_source_line(line, max_width))

\* render_markdown
render_markdown(text, max_width) ==
    LET result == render_lines(SplitOn(text, "\n"), max_width, FALSE, <<>>)
    IN  IF result = <<>> THEN << <<>> >> ELSE result

\* ------------------------------------------------------- markdown inputs
\* source lines without a fence: two words, a word of eight letters, bold and italic words, inline code of two words, a link, a header, a block quote, a list item, an indented, numbered list item, a rule, a blank line
PlainLines ==
    { <<"a", "b", " ", "c", "d">>,
      <<"a", "b", "c", "d", "e", "f", "g", "h">>,
      <<"a", " ", "*", "*", "b", "*", "*", " ", "*", "c", "d", "*">>,
      <<"backtick", "x", " ", "y", "backtick", " ", "z">>,
      <<"[", "t", "]", "(", "u", ")", " ", "v">>,
      <<"#", " ", "a", "b", " ", "c", "d">>,
      <<">", " ", "a", "b", " ", "c", "d">>,
      <<"-", " ", "a", "b", " ", "c", "d">>,
      <<" ", " ", "1", ".", " ", "a", "b">>,
      <<"-", "-", "-">>,
      <<>> }

\* source lines of texts with fenced code: a fence, a fence of the other kind, with a language and spaces around it, a line with spaces that is wider than the narrow widths, a list item, a blank line
FencedLines ==
    { <<"backtick", "backtick", "backtick">>,
      <<" ", "~", "~", "~", "p", "y", " ">>,
      <<" ", " ", "a", " ", " ", "b", "c", "d", "e", "f">>,
      <<"-", " ", "a">>,
      <<>> }

\* the longest text in source lines, without and with fences, and the widest width
MaxPlainLines == 2
MaxFencedLines == 4
MaxWidth == 6

\* [&str]::join("\n")
RECURSIVE JoinLines(_)
JoinLines(lines) ==
    IF Len(lines) = 0 THEN <<>>
    ELSE IF Len(lines) = 1 THEN lines[1]
    ELSE lines[1] \o <<"\n">> \o JoinLines(Tail(lines))

TextsOf(lines, n) == UNION {{JoinLines(ls) : ls \in [1..k -> lines]} : k \in 1..n}
MarkdownTexts == TextsOf(PlainLines, MaxPlainLines) \cup TextsOf(FencedLines, MaxFencedLines)

\* an Assistant line is laid out at a width
Render(text, max_width) ==
    /\ last.op = "init"
    /\ last' = [op |-> "render", text |-> text, max_width |-> max_width,
                rows |-> render_markdown(text, max_width)]
    /\ UNCHANGED <<app, active_session, pending_run_ids, client_rx, hist, budget>>

NextMarkdown ==
    \E text \in MarkdownTexts : \E max_width \in 1..MaxWidth : Render(text, max_width)

SpecMarkdown == InitStream /\ [][NextMarkdown]_vars

\* ------------------------------------------------------------------------ C26
\* the characters of a row, and the number of them
RECURSIVE RowText(_)
RowText(row) == IF row = <<>> THEN <<>> ELSE Head(row).content \o RowText(Tail(row))
RECURSIVE RowsText(_)
RowsText(rows) == IF rows = <<>> THEN <<>> ELSE RowText(Head(rows)) \o RowsText(Tail(rows))
HasFence(text) == \E i \in 1..Len(SplitOn(text, "\n")) : is_fence(SplitOn(text, "\n")[i])

\* C26: for a text without fenced code and a width of at least 1, no row of
\* render_markdown is longer than the width in characters, and a text that is
\* one word longer than the width comes out split over rows that hold all of it.
C26_RowsFitWidth ==
    last.op = "render" /\ ~HasFence(last.text) /\ last.max_width >= 1 =>
        /\ \A i \in 1..Len(last.rows) : Len(RowText(last.rows[i])) <= last.max_width
        /\ last.text = <<"a", "b", "c", "d", "e", "f", "g", "h">> =>
               RowsText(last.rows) = last.text

\* ------------------------------------------------------------------------ C27
\* the source lines of the text laid out last; the lines whose trimmed text
\* starts with three backquotes or three tildes; the lines inside an open
\* fence: those with an odd number of fence lines before them
SourceLines == SplitOn(last.text, "\n")
FenceLine(i) ==
    LET t == Trim(SourceLines[i])
    IN  Len(t) >= 3 /\ SubSeq(t, 1, 3) \in {<<"backtick", "backtick", "backtick">>,
                                            <<"~", "~", "~">>}
InsideFence(i) ==
    /\ ~FenceLine(i)
    /\ Cardinality({j \in 1..(i - 1) : FenceLine(j)}) % 2 = 1

\* the rows owed to the source lines from line i on: none for a fence line,
\* one row of one code-styled span holding the line for a line inside a
\* fence, and the layout of the line on its own for any other line
RECURSIVE RowsFrom(_)
RowsFrom(i) ==
    IF i > Len(SourceLines) THEN <<>>
    ELSE (IF FenceLine(i) THEN <<>>
          ELSE IF InsideFence(i) THEN << <<Span(SourceLines[i], Style("md_code"))>> >>
          ELSE render_markdown(SourceLines[i], last.max_width))
         \o RowsFrom(i + 1)

\* C27: code mode toggles at every line whose trimmed text starts with three
\* backquotes or three tildes; a fence line gives no row; a line inside an
\* open fence gives exactly one row holding the line as it is, whatever the
\* width; a fence never closed stays open to the end of the text.
C27_FencesToggleCode ==
    last.op = "render" =>
        last.rows = IF RowsFrom(1) = <<>> THEN << <<>> >> ELSE RowsFrom(1)

\* a text of an opening fence, a line wider than the width, a closing fence
\* of the other kind and a list item has been laid out at width 3: one row
\* for the code line, unwrapped, and the list item as a list item
C27_Witness ==
    /\ last.op = "render"
    /\ last.max_width = 3
    /\ last.text = JoinLines(<<<<"backtick", "backtick", "backtick">>, <<" ", " ", "a", " ", " ", "b", "c", "d", "e", "f">>, <<" ", "~", "~", "~", "p", "y", " ">>, <<"-", " ", "a">>>>)
    /\ Len(last.rows) = 2
    /\ last.rows[1] = <<Span(<<" ", " ", "a", " ", " ", "b", "c", "d", "e", "f">>, Style("md_code"))>>
    /\ last.rows[2][1].content = <<"bullet", " ">>


\* ============================================== replies that name no run
\* the frames of one reply, tagged for the active session: chunks and finals
\* that carry no runId, and the same carrying r1; a failure without runId
LateChunk(r, t) ==
    ChatPayload(r, Some(K_A_cli), Some(S_delta),
                [message |-> MessageContent(StringContent(t)), text |-> None, error |-> None])
LateFinal(r, t) ==
    ChatPayload(r, Some(K_A_cli), Some(S_final),
                [message |-> MessageContent(StringContent(t)), text |-> None, error |-> None])
LateError(r, e) ==
    ChatPayload(r, Some(K_A_cli), Some(S_error),
                [message |-> None, text |-> None, error |-> Some(e)])

\* the replies drawn, each the sequence of its frames in the order they
\* arrive: replies whose run id becomes known after the first chunk, a reply
\* that names its run from the start, and replies that never name a run
LateReplies ==
    { <<LateChunk(None, "Hel"), LateChunk(Some(R_r1), "lo")>>,
      <<LateChunk(None, "Hel"), LateFinal(Some(R_r1), "Hello")>>,
      <<LateChunk(None, "Hel"), LateChunk(None, "lo"), LateFinal(Some(R_r1), "Hello")>>,
      <<LateChunk(None, "Hel"), LateChunk(Some(R_r1), "lo"), LateFinal(Some(R_r1), "Hello")>>,
      <<LateChunk(Some(R_r1), "Hel"), LateChunk(Some(R_r1), "lo"), LateFinal(Some(R_r1), "Hello")>>,
      <<LateChunk(None, "Hel"), LateFinal(None, "Hello")>>,
      <<LateFinal(None, "Hello")>>,
      <<LateFinal(None, "")>>,
      <<LateError(None, "boom")>> }

\* the acknowledgement of the line the reply answers
LateSends == {SendAck(Some(S_started), Some(R_r1), None, None)}

\* the client started in session agent:a:main; budget.script is the reply
\* whose frames are about to arrive
InitLate ==
    \E script \in LateReplies :
        /\ active_session = normalize_session_key_for_match(K_a_main)
        /\ pending_run_ids = EmptyMap
        /\ client_rx = <<>>
        /\ app = push_message(
                     load_session_history(
                         set_status(AppState_new(K_a_main),
                                    "connected to " \o Url \o " (session "
                                        \o session_display_name(K_a_main) \o ")"),
                         [ok |-> TRUE, err |-> "", messageCount |-> 0]),
                     "System", WelcomeMessage)
        /\ last = [op |-> "init"]
        /\ hist = [reply |-> NoReply, errs |-> 0, silence |-> 0, waited |-> 0,
                   sends |-> 0]
        /\ budget = [frames |-> 0, lines |-> 0, commands |-> 0, keys |-> 0,
                     script |-> script]

\* the closure on the next frame of the reply
LateCallback ==
    /\ budget.frames < Len(budget.script)
    /\ StreamCallback(budget.script[budget.frames + 1])

\* the user's line is sent and acknowledged before the reply's first frame
LateSubmit(line, sent) ==
    /\ budget.frames = 0
    /\ Submit(line, sent)

NextLate ==
    \/ LateCallback
    \/ Drive
    \/ \E line \in ChatLines, sent \in LateSends : LateSubmit(line, sent)

SpecLate == InitLate /\ [][NextLate]_vars

\* every frame of the reply has arrived and the driver has processed them all
ReplyDriven == budget.frames = Len(budget.script) /\ client_rx = <<>>

\* the text a frame carries
FrameText(payload) == Unwrap(extract_content_from_payload(payload).text)

\* ------------------------------------------------------------------------ C29
\* a reply whose first frame is a chunk without run id and one of whose later
\* frames carries a run id
RunKnownLate(script) ==
    /\ script[1].runId = None
    /\ from_raw(script[1].state) = "Streaming"
    /\ \E i \in 2..Len(script) : script[i].runId # None

\* the text the reply leaves: that of its Final, or else its chunks in order
RECURSIVE ChunksText(_)
ChunksText(script) ==
    IF script = <<>> THEN "" ELSE FrameText(Head(script)) \o ChunksText(Tail(script))
ReplyText(script) ==
    IF from_raw(script[Len(script)].state) = "Final"
    THEN FrameText(script[Len(script)])
    ELSE ChunksText(script)

\* C29: while and after a reply arrives whose first chunks carry no run id
\* and whose later chunk or Final carries run id r, the transcript holds at
\* most one Assistant line, and once the whole reply is processed that line
\* holds the reply's text.
C29_LateRunOneLine ==
    RunKnownLate(budget.script) =>
        /\ CountRole(app.messages, "Assistant") <= 1
        /\ ReplyDriven =>
               \E i \in 1..Len(app.messages) :
                   app.messages[i] = [role |-> "Assistant", text |-> ReplyText(budget.script)]

\* ------------------------------------------------------------------------ C30
\* C30: when run r1 was registered by a send acknowledgement and is the only
\* run, and an accepted Final or Error frame without run id has been
\* processed, the run-phase map is empty, waiting is false and nothing is
\* left under the sentinel run id.
C30_RunlessRetiresActive ==
    (/\ hist.sends = 1
     /\ Len(budget.script) = 1
     /\ budget.script[1].runId = None
     /\ ReplyDriven)
        => /\ app.run_phases = EmptyMap
           /\ ~app.waiting
           /\ RUN_DEFAULT_ID \notin DOMAIN app.run_phases \cup DOMAIN app.streams

\* ================================================== two runs at a time
\* the frames of two runs streaming into the active session: chunks, finals
\* and failures of r1 and of r2
RunFrames ==
    UNION { {LateChunk(Some(r), "Hel"), LateFinal(Some(r), "Hello"), LateError(Some(r), "boom")}
            : r \in {R_r1, R_r2} }

NextRuns ==
    \/ \E payload \in RunFrames : StreamCallback(payload)
    \/ Drive

SpecRuns == InitStream /\ [][NextRuns]_vars

\* the driver takes an event that came from a frame classified in classes
Driving(classes) ==
    /\ Len(client_rx) > 0
    /\ client_rx' = Tail(client_rx)
    /\ Head(client_rx).origin.cls \in classes

\* ------------------------------------------------------------------------ C31
\* C31: when the driver processes an event of a Streaming, Final or Error
\* frame of run A, every other run B keeps its phase and its stream line, and
\* waiting stays true if B is in an active phase.
C31_RunsIndependent ==
    [][Driving({"Streaming", "Final", "Error"}) =>
           LET A == EventRun(Head(client_rx).ev)
           IN  \A B \in (DOMAIN app.run_phases \cup DOMAIN app.streams) \ {A} :
                   /\ B \in DOMAIN app.run_phases =>
                          /\ B \in DOMAIN app'.run_phases
                          /\ app'.run_phases[B] = app.run_phases[B]
                          /\ is_active(app.run_phases[B]) /\ app.waiting => app'.waiting
                   /\ B \in DOMAIN app.streams =>
                          /\ B \in DOMAIN app'.streams
                          /\ app'.streams[B] = app.streams[B]]_vars

\* ------------------------------------------------------------------------ C32
\* the session was just switched and client_rx still holds events that
\* passed the filter while the previous session was active
StaleQueued == last.op = "agent" /\ Len(client_rx) > 0

\* C32: after a switch of the active session, the driver applies no event
\* that was accepted while the previous session was active: taking such an
\* event from client_rx changes no transcript line, phase or waiting flag.
C32_NoStaleEvents ==
    [][StaleQueued /\ client_rx' = Tail(client_rx) =>
           /\ app'.messages = app.messages
           /\ app'.run_phases = app.run_phases
           /\ app'.waiting = app.waiting]_vars

\* ============================================ the send and its acknowledgement
\* The keyboard arm of the loop calls handle_submit and awaits it; inside,
\* handle_submit awaits send_chat (app.rs 152-172, 217).  While the driver
\* is suspended there, budget.awaiting holds the line being sent; the
\* transport thread keeps running its callback.
InitSend ==
    /\ active_session = normalize_session_key_for_match(K_a_main)
    /\ pending_run_ids = EmptyMap
    /\ client_rx = <<>>
    /\ app = push_message(
                 load_session_history(
                     set_status(AppState_new(K_a_main),
                                "connected to " \o Url \o " (session "
                                    \o session_display_name(K_a_main) \o ")"),
                     [ok |-> TRUE, err |-> "", messageCount |-> 0]),
                 "System", WelcomeMessage)
    /\ last = [op |-> "init"]
    /\ hist = [reply |-> NoReply, errs |-> 0, silence |-> 0, waited |-> 0,
               sends |-> 0]
    /\ budget = [frames |-> 0, lines |-> 0, commands |-> 0, keys |-> 0,
                 awaiting |-> None]

Awaiting == IsSome(budget.awaiting)

\* handle_submit runs up to the await of send_chat and the request is out
SubmitIssue(line) ==
    /\ budget.lines < MaxLines
    /\ ~Awaiting
    /\ app' = handle_submit_begin(line, app)
    /\ budget' = [budget EXCEPT !.awaiting = Some(line)]
    /\ last' = [op |-> "issue", line |-> line]
    /\ UNCHANGED <<active_session, pending_run_ids, client_rx, hist>>

\* send_chat returns sent; handle_submit finishes and the loop draws
SubmitAck(sent) ==
    /\ Awaiting
    /\ \E out \in handle_submit_ack(app, pending_run_ids, sent) :
           /\ app' = drawn(out.app, Roomy)
           /\ pending_run_ids' = out.pending
    /\ last' = [op |-> "submit", line |-> Unwrap(budget.awaiting), sent |-> sent,
                term |-> Roomy, before |-> Unreads(app), tracked |-> Tracked]
    /\ hist' = [hist EXCEPT !.reply = NoReply, !.silence = 0, !.waited = 0,
                            !.sends = @ + 1]
    /\ budget' = [budget EXCEPT !.lines = @ + 1, !.awaiting = None]
    /\ UNCHANGED <<active_session, client_rx>>

\* the client_rx arm and the tick arm are taken by the loop's select, that
\* is, only when the driver is not inside the keyboard arm (app.rs 132-190)
SendDrive == ~Awaiting /\ Drive
SendTick == ~Awaiting /\ Tick(TimeStep)

NextSend ==
    \/ \E payload \in RunFrames : StreamCallback(payload)
    \/ \E line \in ChatLines : SubmitIssue(line)
    \/ \E sent \in SendOutcomes : SubmitAck(sent)
    \/ SendDrive
    \/ SendTick

SpecSend == InitSend /\ [][NextSend]_vars

\* ------------------------------------------------------------------------ C33
\* C33: while the acknowledgement of a chat.send is pending the driver loop
\* is not blocked: it can take a tick, and it can take an inbound event of
\* another run whenever one is queued on client_rx.
C33_SendDoesNotBlock ==
    Awaiting =>
        /\ ENABLED SendTick
        /\ Len(client_rx) > 0 => ENABLED SendDrive

\* ------------------------------------------------------------------------ C34
\* the steps of the driver loop, by the operation they record
DriverOps == {"drive", "submit", "agent", "clear", "tick"}

\* C34: the transport callback shares no variable with the driver loop: the
\* two variables its session filter reads, active_session and
\* pending_run_ids, are written by no step of the driver loop.
C34_ProducersShareNothing ==
    [][last'.op \in DriverOps => UNCHANGED <<active_session, pending_run_ids>>]_vars

\* ------------------------------------------------------------------------ C35
\* the driver has just processed a Final event with a non-empty text
FinalDriven ==
    /\ last.op = "drive"
    /\ last.ev.type = "AssistantFinal"
    /\ last.ev.text # ""

\* C35: a Final event with a non-empty text that is processed a second time
\* right after the first changes neither the chat transcript nor the
\* run-phase map.
C35_DuplicateFinalReconciled ==
    FinalDriven =>
        \A out \in handle_chat_event(last.ev, app, pending_run_ids) :
            /\ out.app.messages = app.messages
            /\ out.app.run_phases = app.run_phases

\* ------------------------------------------------------------------------ C36
\* the run the driver has just retired by a Final or an Error event
RetiredRun ==
    IF last.op = "drive" /\ last.ev.type \in {"AssistantFinal", "Error"}
    THEN {last.run} ELSE {}

\* the events the callback sends for a late Streaming frame of run r
LateEvents(r) ==
    LET evs == events_for_payload(LateChunk(Some(r), "lo"))
    IN  {evs[i] : i \in 1..Len(evs)}

\* C36: once a Final or an Error event has retired run r, an event of a
\* late Streaming frame of r neither puts r back into the run-phase map in
\* an active phase nor sets waiting to true.
C36_RetirementTerminal ==
    \A r \in RetiredRun :
        \A e \in LateEvents(r) :
            \A out \in handle_chat_event(e, app, pending_run_ids) :
                /\ ~(r \in DOMAIN out.app.run_phases /\ is_active(out.app.run_phases[r]))
                /\ out.app.waiting => app.waiting

\* ------------------------------------------------------------------------ C37
\* C37: between driver-loop steps, waiting is true exactly when the waiting
\* timer is set.
C37_WaitingIffTimer == app.waiting <=> IsSome(app.waiting_started)

\* an event has started the wait and its timer
C37_Witness ==
    /\ last.op = "drive"
    /\ last.ev.type = "RunState"
    /\ app.waiting
    /\ IsSome(app.waiting_started)
    /\ hist.sends = 0

\* ------------------------------------------------------------------------ C38
\* C38: every index in the stream map is an index of the chat transcript
\* and the line there is an Assistant line.
C38_StreamsPointAtAssistant ==
    \A r \in DOMAIN app.streams :
        /\ app.streams[r] < Len(app.messages)
        /\ app.messages[app.streams[r] + 1].role = "Assistant"

\* a line was submitted while a reply streams: the run's entry points at a
\* line that is no longer the last one
C38_Witness ==
    /\ last.op = "submit"
    /\ \E r \in DOMAIN app.streams : app.streams[r] + 1 < Len(app.messages)

\* ------------------------------------------------------------------------ C39
\* C39: the active run id is unset or a key of the run-phase map.
C39_ActiveRunHasPhase ==
    IsSome(app.active_run_id) => Unwrap(app.active_run_id) \in DOMAIN app.run_phases

\* ------------------------------------------------------------------------ C40
\* the step keeps the lines the transcript held before it
KeepsTranscript ==
    /\ Len(app'.messages) >= Len(app.messages)
    /\ SubSeq(app'.messages, 1, Len(app.messages)) = app.messages

\* C40: when a session switch has completed, with the history loaded or
\* not, the transcript holds none of the lines it held under the previous
\* session, and the run-phase map, the stream map and the pending run ids
\* are empty.
C40_SwitchStartsAfresh ==
    [][last'.op = "agent" =>
           /\ ~KeepsTranscript
           /\ app'.run_phases = EmptyMap
           /\ app'.streams = EmptyMap
           /\ pending_run_ids' = EmptyMap]_vars
====
